---- MODULE Spec2Model ----
(***************************************************************************)
(* A model of the PowerPoint MCP server's path resolver, root              *)
(* configuration, parameter validator and of the request handlers that     *)
(* call them (src/ppt_mcp_server.py, src/tools/*.py).                       *)
(*                                                                         *)
(* Strings are sequences of one-character strings, so that strip, dirname, *)
(* basename, join, normpath and abspath are computed character by          *)
(* character as posixpath computes them.  The filesystem is a set of       *)
(* directories and a map of files, both keyed by location: the sequence of *)
(* component names below "/".                                              *)
(***************************************************************************)
EXTENDS Integers, Sequences, FiniteSets, TLC

VARIABLES
    phase,   \* "boot" before the __main__ block has run, "serving" after
    cli,     \* _presentations_root_cli: None or a string
    env,     \* os.environ.get("PPT_PRESENTATIONS_ROOT"): None (unset) or a string
    dirs,    \* the directories on disk (locations)
    files,   \* the files on disk: location -> document
    tplenv,  \* os.environ.get("PPT_TEMPLATE_PATH"): None (unset) or a string
    arg,     \* the identifier under study in SpecResolve / the params in SpecValidate
    argv,    \* args.presentations_root: None (no -r) or the string given
    last,    \* what the last call did: its inputs, result and trace of I/O
    ncalls   \* number of calls served so far

vars == <<phase, cli, env, tplenv, dirs, files, arg, argv, last, ncalls>>

\* Python's None, as a value comparable with strings (sequences of characters)
None == <<"None">>

----------------------------------------------------------------------------
(* Bounds *)

\* longest identifier drawn in SpecResolve
MaxLen == 5
\* longest identifier a request of Spec carries
MaxReqLen == 2
\* calls per behaviour
MaxCalls == 2
\* constraints per parameter in SpecValidate
MaxConstraints == 2
MaxRgbLen == 4
MaxRange == 12
MaxToolCalls == 1
MaxSeries == 2
\* longest PPT_TEMPLATE_PATH value in SpecSearch
MaxEnvLen == 3
\* lookups per behaviour of SpecSearch
MaxLookups == 2

Alphabet == {"/", ".", "a", " "}

StringsUpTo(n) == UNION {[1..k -> Alphabet] : k \in 0..n}

----------------------------------------------------------------------------
(* str methods and posixpath *)

RECURSIVE LStrip(_)
LStrip(s) == IF s # <<>> /\ Head(s) = " " THEN LStrip(Tail(s)) ELSE s

RECURSIVE RStrip(_)
RStrip(s) ==
    IF s # <<>> /\ s[Len(s)] = " " THEN RStrip(SubSeq(s, 1, Len(s) - 1)) ELSE s

\* str.strip()
Strip(s) == RStrip(LStrip(s))

RECURSIVE RStripSlash(_)
RStripSlash(s) ==
    IF s # <<>> /\ s[Len(s)] = "/" THEN RStripSlash(SubSeq(s, 1, Len(s) - 1)) ELSE s

\* p.rfind('/') + 1
RFindSep(p) ==
    LET I == {j \in 1..Len(p) : p[j] = "/"}
    IN  IF I = {} THEN 0 ELSE CHOOSE j \in I : \A k \in I : k <= j

AllSlashes(s) == \A j \in 1..Len(s) : s[j] = "/"

isabs(s) == s # <<>> /\ Head(s) = "/"

basename(p) == SubSeq(p, RFindSep(p) + 1, Len(p))

dirname(p) ==
    LET head == SubSeq(p, 1, RFindSep(p))
    IN  IF head # <<>> /\ ~AllSlashes(head) THEN RStripSlash(head) ELSE head

join(a, b) ==
    IF isabs(b) THEN b
    ELSE IF a = <<>> \/ a[Len(a)] = "/" THEN a \o b
    ELSE a \o <<"/">> \o b

\* s.split(ch): the sequence of pieces, empty ones included
RECURSIVE Split(_, _)
Split(s, ch) ==
    LET I == {j \in 1..Len(s) : s[j] = ch}
    IN  IF I = {} THEN <<s>>
        ELSE LET j == CHOOSE x \in I : \A y \in I : x <= y
             IN  <<SubSeq(s, 1, j - 1)>> \o Split(SubSeq(s, j + 1, Len(s)), ch)

SplitSep(p) == Split(p, "/")

RECURSIVE JoinSep(_)
JoinSep(comps) ==
    IF comps = <<>> THEN <<>>
    ELSE IF Len(comps) = 1 THEN comps[1]
    ELSE comps[1] \o <<"/">> \o JoinSep(Tail(comps))

DotDot == <<".", ".">>

\* the loop of normpath over the components
RECURSIVE NormComps(_, _, _)
NormComps(comps, acc, initial_slashes) ==
    IF comps = <<>> THEN acc
    ELSE LET c == Head(comps)
         IN  IF c = <<>> \/ c = <<".">> THEN NormComps(Tail(comps), acc, initial_slashes)
             ELSE IF \/ c # DotDot
                     \/ (initial_slashes = 0 /\ acc = <<>>)
                     \/ (acc # <<>> /\ acc[Len(acc)] = DotDot)
                  THEN NormComps(Tail(comps), Append(acc, c), initial_slashes)
             ELSE IF acc # <<>>
                  THEN NormComps(Tail(comps), SubSeq(acc, 1, Len(acc) - 1), initial_slashes)
             ELSE NormComps(Tail(comps), acc, initial_slashes)

InitialSlashes(p) ==
    IF ~isabs(p) THEN 0
    ELSE IF Len(p) >= 2 /\ p[2] = "/" /\ ~(Len(p) >= 3 /\ p[3] = "/") THEN 2
    ELSE 1

normpath(p) ==
    IF p = <<>> THEN <<".">>
    ELSE LET n == InitialSlashes(p)
             body == JoinSep(NormComps(SplitSep(p), <<>>, n))
             out == [j \in 1..n |-> "/"] \o body
         IN  IF out = <<>> THEN <<".">> ELSE out

\* os.getcwd()
cwd == <<"/", "w">>

abspath(p) == normpath(IF isabs(p) THEN p ELSE join(cwd, p))

----------------------------------------------------------------------------
(* The filesystem *)

\* the location a normalised absolute path names
RECURSIVE NonEmpty(_)
NonEmpty(comps) ==
    IF comps = <<>> THEN <<>>
    ELSE IF Head(comps) = <<>> THEN NonEmpty(Tail(comps))
    ELSE <<Head(comps)>> \o NonEmpty(Tail(comps))

Loc(p) == NonEmpty(SplitSep(p))

Prefixes(loc) == {SubSeq(loc, 1, k) : k \in 0..Len(loc)}

Parent(loc) == IF loc = <<>> THEN <<>> ELSE SubSeq(loc, 1, Len(loc) - 1)

NoLoc == <<<<"?">>, <<"?">>>>

\* path lookup as the kernel does it: every component but the last must be
\* a directory, "." stays, ".." goes up, a trailing "/" needs a directory
RECURSIVE WalkFrom(_, _, _, _)
WalkFrom(at, comps, D, F) ==
    IF comps = <<>> THEN at
    ELSE IF at \notin D THEN NoLoc
    ELSE LET c == Head(comps)
         IN  IF c = <<>> \/ c = <<".">> THEN WalkFrom(at, Tail(comps), D, F)
             ELSE IF c = DotDot THEN WalkFrom(Parent(at), Tail(comps), D, F)
             ELSE LET nxt == Append(at, c)
                  IN  IF nxt \in D \/ nxt \in DOMAIN F
                      THEN WalkFrom(nxt, Tail(comps), D, F)
                      ELSE NoLoc

Walk(p, D, F) ==
    IF p = <<>> THEN NoLoc
    ELSE WalkFrom(IF isabs(p) THEN <<>> ELSE Loc(cwd), SplitSep(p), D, F)

\* os.path.exists, os.path.isdir
exists(p, D, F) == Walk(p, D, F) # NoLoc
isdir(p, D, F) == Walk(p, D, F) \in D

\* os.makedirs(name, exist_ok=...) of a normalised absolute path: it raises
\* when a component of the path is a file, or when the directory exists and
\* exist_ok is false; otherwise every missing ancestor and the directory
\* itself are created
makedirs_impl(name, exist_ok, D, F) ==
    LET loc == Loc(name)
        blocked == \E q \in Prefixes(loc) : q \in DOMAIN F
        present == loc \in D
    IN  IF blocked \/ (present /\ ~exist_ok)
        THEN [raised |-> TRUE, dirs |-> D]
        ELSE [raised |-> FALSE, dirs |-> D \cup Prefixes(loc)]

----------------------------------------------------------------------------
(* The document library behind ppt_utils: documents, open, save *)

\* a document is its sequence of slides, a slide its sequence of shapes; a
\* text shape carries the runs of its first paragraph
Run(text, url) == [text |-> text, url |-> url]
TextShape(runs) == [kind |-> "text", runs |-> runs]
OtherShape == [kind |-> "other", runs |-> <<>>]

\* ppt_utils.create_presentation(): one slide, no shapes
DefaultDoc == << <<>> >>

\* a deck with a text shape of one run and a shape without text
RichDoc == << <<TextShape(<<Run(<<"t">>, None)>>), OtherShape>> >>

\* a chart shape carries its data, a connector its type and line colour
NoData == <<>>
ChartShape(data) == [kind |-> "chart", runs |-> <<>>, data |-> data]
ConnectorShape(type, color) == [kind |-> "connector", runs |-> <<>>, type |-> type, color |-> color]

\* a deck with a text shape of one run and a chart
ChartDoc == << <<TextShape(<<Run(<<"t">>, None)>>), ChartShape(NoData)>> >>

\* the keys of the mapping ppt_utils.get_presentation_info and
\* ppt_utils.get_template_info return
InfoKeys == {"slide_count", "slide_layouts", "core_properties"}

NoFiles == <<>>
FileAt(loc, doc) == [l \in {loc} |-> doc]
Write(F, loc, doc) == [l \in DOMAIN F \cup {loc} |-> IF l = loc THEN doc ELSE F[l]]

\* ppt_utils.open_presentation(path) raises unless path names a file
CanOpen(path, D, F) == Walk(path, D, F) \in DOMAIN F
Opened(path, D, F) == F[Walk(path, D, F)]

\* ppt_utils.save_presentation(pres, path) writes the file at path; it raises
\* (NoLoc) when path names a directory or its parent is no directory
SaveLoc(path, D, F) ==
    LET w == Walk(path, D, F)
    IN  IF w \in DOMAIN F THEN w
        ELSE IF w \in D THEN NoLoc
        ELSE LET b == basename(path)
                 parent == IF dirname(path) = <<>> THEN Loc(cwd)
                           ELSE Walk(dirname(path), D, F)
             IN  IF parent \in D /\ b \notin {<<>>, <<".">>, DotDot}
                 THEN Append(parent, b)
                 ELSE NoLoc

----------------------------------------------------------------------------
(* Root configuration and the path resolver (src/ppt_mcp_server.py) *)

\* Python truthiness of an Optional[str]
Truthy(s) == s # None /\ s # <<>>

\* the literal "./presentations"
DefaultRoot ==
    <<".", "/", "p", "r", "e", "s", "e", "n", "t", "a", "t", "i", "o", "n", "s">>

get_presentations_root_env_first(c, e) ==
    IF e # None THEN e
    ELSE IF Truthy(c) THEN c ELSE DefaultRoot
get_presentations_root(c, e) ==
    IF Truthy(c) THEN c
    ELSE IF e # None THEN e ELSE DefaultRoot

\* raw = name_or_path.strip()
raw_unstripped(name_or_path) == name_or_path
raw(name_or_path) == Strip(name_or_path)

HasDot(s) == \E j \in 1..Len(s) : s[j] = "."
StartsWithDot(s) == s # <<>> /\ Head(s) = "."

\* looks_like_file = '.' in base_name and not base_name.startswith('.')
looks_like_file(base_name) == HasDot(base_name) /\ ~StartsWithDot(base_name)

\* dir_to_create = os.path.dirname(abs_path) if looks_like_file else abs_path
dir_to_create_parent(abs_path) == dirname(abs_path)
dir_to_create_self(abs_path) == abs_path
dir_to_create(abs_path) ==
    IF looks_like_file(basename(abs_path)) THEN dirname(abs_path) ELSE abs_path

\* os.makedirs(..., exist_ok=True), as the resolver calls it
makedirs_no_exist_ok(name, D, F) == makedirs_impl(name, FALSE, D, F)
makedirs_parent_only(name, D, F) ==
    LET m == makedirs_impl(name, TRUE, D, F)
    IN  [m EXCEPT !.dirs = IF m.raised THEN D ELSE D \cup Prefixes(Parent(Loc(name)))]
makedirs(name, D, F) == makedirs_impl(name, TRUE, D, F)

\* the test of line 52: absolute, or with a directory part
IsDirect(r) == isabs(r) \/ dirname(r) # <<>>

\* root = os.path.abspath(get_presentations_root())
root(c, e) == abspath(get_presentations_root(c, e))

\* resolve_presentation_path: [raised, path, dirs]; an exception of makedirs
\* is printed and re-raised, so nothing is returned
resolve_presentation_path(name_or_path, c, e, D, F) ==
    LET r == raw(name_or_path)
    IN  IF IsDirect(r)
        THEN LET abs_path == abspath(r)
                 d == dir_to_create(abs_path)
                 m == IF d # <<>> THEN makedirs(d, D, F) ELSE [raised |-> FALSE, dirs |-> D]
             IN  IF m.raised
                 THEN [raised |-> TRUE, path |-> None, dirs |-> m.dirs]
                 ELSE [raised |-> FALSE, path |-> abs_path, dirs |-> m.dirs]
        ELSE LET m == makedirs(root(c, e), D, F)
             IN  IF m.raised
                 THEN [raised |-> TRUE, path |-> None, dirs |-> m.dirs]
                 ELSE [raised |-> FALSE, path |-> join(root(c, e), r), dirs |-> m.dirs]

----------------------------------------------------------------------------
(* Template search directories (src/ppt_mcp_server.py) *)

\* os.path.expanduser
home == <<"/", "h">>
expanduser(p) ==
    IF p # <<>> /\ Head(p) = "~" /\ (Len(p) = 1 \/ p[2] = "/")
    THEN home \o Tail(p)
    ELSE p

\* ['.', './templates', './assets', './resources']
FallbackDirs ==
    << <<".">>,
       <<".", "/", "t", "e", "m", "p", "l", "a", "t", "e", "s">>,
       <<".", "/", "a", "s", "s", "e", "t", "s">>,
       <<".", "/", "r", "e", "s", "o", "u", "r", "c", "e", "s">> >>

NonBlank(s) == Strip(s) # <<>>

\* the search path with the fallback list ahead of the variable's entries
get_template_search_directories_fallback_first(tenv, D, F) ==
    IF Truthy(tenv)
    THEN LET pieces == SelectSeq(Split(tenv, ":"), NonBlank)
             env_dirs == [i \in 1..Len(pieces) |-> expanduser(Strip(pieces[i]))]
             IsValid(d) == exists(d, D, F) /\ isdir(d, D, F)
             valid_env_dirs == SelectSeq(env_dirs, IsValid)
         IN  FallbackDirs \o valid_env_dirs
    ELSE FallbackDirs

get_template_search_directories(tenv, D, F) ==
    IF Truthy(tenv)
    THEN LET pieces == SelectSeq(Split(tenv, ":"), NonBlank)
             env_dirs == [i \in 1..Len(pieces) |-> expanduser(Strip(pieces[i]))]
             IsValid(d) == exists(d, D, F) /\ isdir(d, D, F)
             valid_env_dirs == SelectSeq(env_dirs, IsValid)
         IN  IF valid_env_dirs # <<>> THEN valid_env_dirs \o FallbackDirs ELSE FallbackDirs
    ELSE FallbackDirs

----------------------------------------------------------------------------
(* Value checks and the name sanitizer (src/ppt_mcp_server.py,
   src/tools/response_utils.py) *)

\* a Python value: its type, and its items when it is a list or a tuple; an
\* item is a value of type int, bool (a subclass of int: True is 1, False is
\* 0), float or str
PyValue(type, items) == [type |-> type, items |-> items]
PyItem(type, value) == [type |-> type, value |-> value]

\* isinstance(c, int)
isinstance_int(c) == c.type \in {"int", "bool"}

\* isinstance(color_list, list)
isinstance_list(v) == v.type = "list"

is_valid_rgb_any_length(color_list) ==
    /\ isinstance_list(color_list)
    /\ \A i \in 1..Len(color_list.items) :
          /\ isinstance_int(color_list.items[i])
          /\ 0 <= color_list.items[i].value /\ color_list.items[i].value <= 255

is_valid_rgb(color_list) ==
    IF ~isinstance_list(color_list) \/ Len(color_list.items) # 3
    THEN FALSE
    ELSE \A i \in 1..Len(color_list.items) :
            /\ isinstance_int(color_list.items[i])
            /\ 0 <= color_list.items[i].value /\ color_list.items[i].value <= 255

\* str.rstrip(chars)
RECURSIVE RStripChars(_, _)
RStripChars(s, chars) ==
    IF s # <<>> /\ s[Len(s)] \in chars THEN RStripChars(SubSeq(s, 1, Len(s) - 1), chars) ELSE s

sanitize_presentation_name_unstripped(presentation_file_name) ==
    IF ~Truthy(presentation_file_name) THEN presentation_file_name
    ELSE LET stripped == RStripChars(presentation_file_name, {"\\", "/"})
         IN  IF stripped = <<>> THEN stripped
             ELSE IF basename(stripped) # <<>> THEN basename(stripped) ELSE stripped

\* a sanitizer that trims the identifier and keeps its directory part
sanitize_presentation_name_whole(presentation_file_name) ==
    IF ~Truthy(presentation_file_name) THEN presentation_file_name
    ELSE RStripChars(Strip(presentation_file_name), {"\\", "/"})

sanitize_presentation_name(presentation_file_name) ==
    IF ~Truthy(presentation_file_name) THEN presentation_file_name
    ELSE LET stripped == Strip(presentation_file_name)
         IN  IF stripped = <<>> THEN stripped
             ELSE LET stripped2 == RStripChars(stripped, {"\\", "/"})
                  IN  IF stripped2 = <<>> THEN stripped2
                      ELSE IF basename(stripped2) # <<>> THEN basename(stripped2)
                           ELSE stripped2

----------------------------------------------------------------------------
(* Request handlers (src/tools/presentation_tools.py, hyperlink_tools.py) *)

\* what one request did: the response (a message, an error, or an exception
\* that left the handler), the filesystem after it, and the order of its
\* resolutions, opens and saves
Reply(outcome, keys, text, slide_count, raised, path, io, D, F) ==
    [outcome |-> outcome, keys |-> keys, text |-> text, slide_count |-> slide_count,
     raised |-> raised, path |-> path, io |-> io, dirs |-> D, files |-> F]

\* an out-of-range error text without the index
OutOfRangeTextBare(what, index) == <<what>>

\* f"Slide index {slide_index} out of range" and its like: the text and the
\* one value it interpolates
OutOfRangeText(what, index) == <<what, index>>

EvResolve(name) == <<"resolve", name>>
EvOpen(path) == <<"open", path>>
EvSave(path) == <<"save", path>>

\* a create_presentation that goes on to save after a failed resolution
create_presentation_save_anyway(name, c, e, D, F) ==
    LET rp == resolve_presentation_path(name, c, e, D, F)
        path == IF rp.raised THEN abspath(raw(name)) ELSE rp.path
        loc == SaveLoc(path, rp.dirs, F)
    IN  IF loc = NoLoc
        THEN Reply("exception", {}, <<"save">>, -1, rp.raised, rp.path,
                   <<EvResolve(name), EvSave(path)>>, rp.dirs, F)
        ELSE Reply("message", {"message", "file_path", "slide_count"},
                   <<"Created new presentation at: ", path>>, Len(DefaultDoc),
                   rp.raised, rp.path, <<EvResolve(name), EvSave(path)>>,
                   rp.dirs, Write(F, loc, DefaultDoc))

\* a create_presentation that answers without saving
create_presentation_unsaved(rp, name, F) ==
    IF rp.raised
    THEN Reply("exception", {}, <<"resolve">>, -1, TRUE, None, <<EvResolve(name)>>, rp.dirs, F)
    ELSE Reply("message", {"message", "file_path", "slide_count"},
               <<"Created new presentation at: ", rp.path>>, Len(DefaultDoc),
               FALSE, rp.path, <<EvResolve(name)>>, rp.dirs, F)

\* create_presentation from the resolution rp of its name on
create_presentation_at(rp, name, F) ==
    LET loc == SaveLoc(rp.path, rp.dirs, F)
    IN  IF rp.raised
        THEN Reply("exception", {}, <<"resolve">>, -1, TRUE, None, <<EvResolve(name)>>, rp.dirs, F)
        ELSE IF loc = NoLoc
        THEN Reply("exception", {}, <<"save">>, -1, FALSE, rp.path,
                   <<EvResolve(name), EvSave(rp.path)>>, rp.dirs, F)
        ELSE Reply("message", {"message", "file_path", "slide_count"},
                   <<"Created new presentation at: ", rp.path>>, Len(DefaultDoc),
                   FALSE, rp.path, <<EvResolve(name), EvSave(rp.path)>>,
                   rp.dirs, Write(F, loc, DefaultDoc))

create_presentation(name, c, e, D, F) ==
    create_presentation_at(resolve_presentation_path(name, c, e, D, F), name, F)

\* a search that goes on to the last directory that holds the name
FindTemplateLastHit(template_path, tenv, D, F) ==
    IF exists(template_path, D, F) THEN template_path
    ELSE LET search_dirs == get_template_search_directories(tenv, D, F)
             template_name == basename(template_path)
             hits == {i \in 1..Len(search_dirs) :
                         exists(join(search_dirs[i], template_name), D, F)}
         IN  IF hits = {} THEN None
             ELSE join(search_dirs[CHOOSE i \in hits : \A k \in hits : i >= k], template_name)

\* the template to load: template_path when it exists, else the first hit
\* for its basename in the search directories, else None
FindTemplate(template_path, tenv, D, F) ==
    IF exists(template_path, D, F) THEN template_path
    ELSE LET search_dirs == get_template_search_directories(tenv, D, F)
             template_name == basename(template_path)
             hits == {i \in 1..Len(search_dirs) :
                         exists(join(search_dirs[i], template_name), D, F)}
         IN  IF hits = {} THEN None
             ELSE join(search_dirs[CHOOSE i \in hits : \A k \in hits : i <= k], template_name)

\* create_presentation_from_template from the template found on; the name is
\* resolved (rp) only after the template is loaded
create_presentation_from_template_at(found, rp, template_path, name, D, F) ==
        IF found = None
        THEN Reply("error", {"error"}, <<"Template file not found: ", template_path>>, -1,
                   FALSE, None, <<>>, D, F)
        ELSE IF ~CanOpen(found, D, F)
        THEN Reply("error", {"error"}, <<"Failed to create presentation from template">>, -1,
                   FALSE, None, <<EvOpen(found)>>, D, F)
        ELSE LET pres == Opened(found, D, F)
                 loc == SaveLoc(rp.path, rp.dirs, F)
             IN  IF rp.raised
                 THEN Reply("exception", {}, <<"resolve">>, -1, TRUE, None,
                            <<EvOpen(found), EvResolve(name)>>, rp.dirs, F)
                 ELSE IF loc = NoLoc
                 THEN Reply("exception", {}, <<"save">>, -1, FALSE, rp.path,
                            <<EvOpen(found), EvResolve(name), EvSave(rp.path)>>, rp.dirs, F)
                 ELSE Reply("message",
                            {"message", "template_path", "file_path", "slide_count",
                             "layout_count"},
                            <<"Created new presentation from template ", found>>,
                            Len(pres), FALSE, rp.path,
                            <<EvOpen(found), EvResolve(name), EvSave(rp.path)>>,
                            rp.dirs, Write(F, loc, pres))

create_presentation_from_template(template_path, name, c, e, tenv, D, F) ==
    create_presentation_from_template_at(FindTemplate(template_path, tenv, D, F),
                                         resolve_presentation_path(name, c, e, D, F),
                                         template_path, name, D, F)

\* open_presentation from the resolution rp of its name on
open_presentation_at(rp, name, F) ==
        IF rp.raised
        THEN Reply("exception", {}, <<"resolve">>, -1, TRUE, None, <<EvResolve(name)>>, rp.dirs, F)
        ELSE IF ~exists(rp.path, rp.dirs, F)
        THEN Reply("error", {"error"}, <<"File not found: ", rp.path>>, -1, FALSE, rp.path,
                   <<EvResolve(name)>>, rp.dirs, F)
        ELSE IF ~CanOpen(rp.path, rp.dirs, F)
        THEN Reply("error", {"error"}, <<"Failed to open presentation">>, -1, FALSE, rp.path,
                   <<EvResolve(name), EvOpen(rp.path)>>, rp.dirs, F)
        ELSE Reply("message", {"message", "file_path", "slide_count"},
                   <<"Opened presentation: ", rp.path>>,
                   Len(Opened(rp.path, rp.dirs, F)), FALSE, rp.path,
                   <<EvResolve(name), EvOpen(rp.path)>>, rp.dirs, F)

open_presentation(name, c, e, D, F) ==
    open_presentation_at(resolve_presentation_path(name, c, e, D, F), name, F)

\* runs[run_index] as Python indexes a list: the position, or 0 for IndexError
PyIndex(run_index, n) ==
    IF 0 <= run_index /\ run_index < n THEN run_index + 1
    ELSE IF run_index < 0 /\ -run_index <= n THEN n + run_index + 1
    ELSE 0

\* what the handler saves: nothing, or the mutated document
NotSaved == [any |-> FALSE, doc |-> <<>>]
Saved(doc) == [any |-> TRUE, doc |-> doc]

\* an optional index: shape_index = None is NoIndex, shape_index = i is <<i>>
NoIndex == <<>>

\* the part of manage_hyperlinks that follows open_presentation: the reply and
\* the document saved
hyperlinks_on(pres, operation, slide_index, shape_index, text, url, run_index) ==
    IF ~(0 <= slide_index /\ slide_index < Len(pres))
    THEN [outcome |-> "error", keys |-> {"error"}, text |-> OutOfRangeText("Slide index out of range", slide_index), saved |-> NotSaved]
    ELSE LET slide == pres[slide_index + 1]
         IN  IF operation = "list"
             THEN [outcome |-> "message", keys |-> {"message", "hyperlinks", "file_path"},
                   text |-> <<"Found hyperlinks on slide", slide_index>>,
                   saved |-> NotSaved]
             ELSE IF shape_index = NoIndex
                     \/ ~(0 <= shape_index[1] /\ shape_index[1] < Len(slide))
             THEN [outcome |-> "error", keys |-> {"error"}, text |-> OutOfRangeText("Shape index out of range", shape_index),
                   saved |-> NotSaved]
             ELSE LET shape == slide[shape_index[1] + 1]
                      runs == shape.runs
                      at == PyIndex(run_index, Len(runs))
                      WithRuns(rs) ==
                          [pres EXCEPT ![slide_index + 1][shape_index[1] + 1].runs = rs]
                  IN  IF shape.kind # "text"
                      THEN [outcome |-> "error", keys |-> {"error"}, text |-> <<"Shape does not contain text">>,
                            saved |-> NotSaved]
                      ELSE IF operation = "add"
                      THEN IF text = None \/ url = None
                           THEN [outcome |-> "error", keys |-> {"error"},
                                 text |-> <<"Both 'text' and 'url' are required">>,
                                 saved |-> NotSaved]
                           ELSE [outcome |-> "message",
                                 keys |-> {"message", "text", "url", "file_path"},
                                 text |-> <<"Added hyperlink", text, url>>,
                                 saved |-> Saved(WithRuns(Append(runs, Run(text, url))))]
                      ELSE IF operation = "update"
                      THEN IF url = None
                           THEN [outcome |-> "error", keys |-> {"error"}, text |-> <<"URL is required">>,
                                 saved |-> NotSaved]
                           ELSE IF ~(run_index < Len(runs))
                           THEN [outcome |-> "error", keys |-> {"error"},
                                 text |-> OutOfRangeText("Run index out of range", run_index),
                                 saved |-> NotSaved]
                           ELSE IF at = 0
                           THEN [outcome |-> "error", keys |-> {"error"}, text |-> <<"Failed to manage hyperlinks">>,
                                 saved |-> NotSaved]
                           ELSE [outcome |-> "message",
                                 keys |-> {"message", "old_url", "new_url", "text",
                                           "file_path"},
                                 text |-> <<"Updated hyperlink", runs[at].url, url>>,
                                 saved |-> Saved(WithRuns([runs EXCEPT ![at].url = url]))]
                      ELSE IF operation = "remove"
                      THEN IF ~(run_index < Len(runs))
                           THEN [outcome |-> "error", keys |-> {"error"},
                                 text |-> OutOfRangeText("Run index out of range", run_index),
                                 saved |-> NotSaved]
                           ELSE IF at = 0
                           THEN [outcome |-> "error", keys |-> {"error"}, text |-> <<"Failed to manage hyperlinks">>,
                                 saved |-> NotSaved]
                           ELSE [outcome |-> "message",
                                 keys |-> {"message", "removed_url", "text", "file_path"},
                                 text |-> <<"Removed hyperlink", runs[at].url>>,
                                 saved |-> Saved(WithRuns([runs EXCEPT ![at].url = None]))]
                      ELSE [outcome |-> "error", keys |-> {"error"}, text |-> <<"Unsupported operation", operation>>,
                            saved |-> NotSaved]

\* manage_hyperlinks from the resolution rp of its file name on, up to
\* open_presentation; every exception is caught by the handler and answered
\* as an error
manage_hyperlinks_at(rp, operation, slide_index, shape_index, text, url, run_index, name, F) ==
             IF rp.raised
             THEN Reply("error", {"error"}, <<"Failed to manage hyperlinks">>, -1, TRUE, None,
                        <<EvResolve(name)>>, rp.dirs, F)
             ELSE IF ~exists(rp.path, rp.dirs, F)
             THEN Reply("error", {"error"}, <<"File not found: ", rp.path>>, -1, FALSE, rp.path,
                        <<EvResolve(name)>>, rp.dirs, F)
             ELSE IF ~CanOpen(rp.path, rp.dirs, F)
             THEN Reply("error", {"error"}, <<"Failed to manage hyperlinks">>, -1, FALSE, rp.path,
                        <<EvResolve(name), EvOpen(rp.path)>>, rp.dirs, F)
             ELSE LET pres == Opened(rp.path, rp.dirs, F)
                      h == hyperlinks_on(pres, operation, slide_index, shape_index,
                                         text, url, run_index)
                  IN  IF ~h.saved.any
                      THEN Reply(h.outcome, h.keys, h.text, -1, FALSE, rp.path,
                                 <<EvResolve(name), EvOpen(rp.path)>>, rp.dirs, F)
                      ELSE Reply(h.outcome, h.keys, h.text, -1, FALSE, rp.path,
                                 <<EvResolve(name), EvOpen(rp.path), EvSave(rp.path)>>,
                                 rp.dirs, Write(F, SaveLoc(rp.path, rp.dirs, F), h.saved.doc))

manage_hyperlinks(operation, slide_index, shape_index, text, url, run_index, name, c, e, D, F) ==
    IF name = None \/ name = <<>>
    THEN Reply("error", {"error"}, <<"presentation_file_name is required">>, -1, FALSE, None, <<>>, D, F)
    ELSE manage_hyperlinks_at(resolve_presentation_path(name, c, e, D, F), operation,
                              slide_index, shape_index, text, url, run_index, name, F)

\* save_presentation: the resolver is called outside the try
save_presentation_at(rp, name, file_path, F) ==
    LET dest_path == IF Truthy(file_path) THEN abspath(file_path) ELSE rp.path
        loc == SaveLoc(dest_path, rp.dirs, F)
    IN  IF rp.raised
        THEN Reply("exception", {}, <<"resolve">>, -1, TRUE, None, <<EvResolve(name)>>,
                   rp.dirs, F)
        ELSE IF ~exists(rp.path, rp.dirs, F)
        THEN Reply("error", {"error"}, <<"File not found: ", rp.path>>, -1, FALSE, rp.path,
                   <<EvResolve(name)>>, rp.dirs, F)
        ELSE IF ~CanOpen(rp.path, rp.dirs, F)
        THEN Reply("error", {"error"}, <<"Failed to save presentation">>, -1, FALSE, rp.path,
                   <<EvResolve(name), EvOpen(rp.path)>>, rp.dirs, F)
        ELSE IF loc = NoLoc
        THEN Reply("error", {"error"}, <<"Failed to save presentation">>, -1, FALSE, rp.path,
                   <<EvResolve(name), EvOpen(rp.path), EvSave(dest_path)>>, rp.dirs, F)
        ELSE Reply("message", {"message", "file_path"},
                   <<"Presentation saved to ", dest_path>>, -1, FALSE, rp.path,
                   <<EvResolve(name), EvOpen(rp.path), EvSave(dest_path)>>, rp.dirs,
                   Write(F, loc, Opened(rp.path, rp.dirs, F)))

save_presentation(name, file_path, c, e, D, F) ==
    save_presentation_at(resolve_presentation_path(name, c, e, D, F), name, file_path, F)

\* get_presentation_info: on success the library's info mapping with
\* file_path added
get_presentation_info_at(rp, name, F) ==
        IF rp.raised
        THEN Reply("exception", {}, <<"resolve">>, -1, TRUE, None, <<EvResolve(name)>>,
                   rp.dirs, F)
        ELSE IF ~exists(rp.path, rp.dirs, F)
        THEN Reply("error", {"error"}, <<"File not found: ", rp.path>>, -1, FALSE, rp.path,
                   <<EvResolve(name)>>, rp.dirs, F)
        ELSE IF ~CanOpen(rp.path, rp.dirs, F)
        THEN Reply("error", {"error"}, <<"Failed to get presentation info">>, -1, FALSE,
                   rp.path, <<EvResolve(name), EvOpen(rp.path)>>, rp.dirs, F)
        ELSE Reply("info", InfoKeys \cup {"file_path"}, <<>>,
                   Len(Opened(rp.path, rp.dirs, F)), FALSE, rp.path,
                   <<EvResolve(name), EvOpen(rp.path)>>, rp.dirs, F)

get_presentation_info(name, c, e, D, F) ==
    get_presentation_info_at(resolve_presentation_path(name, c, e, D, F), name, F)

get_template_file_info(template_path, tenv, D, F) ==
    LET found == FindTemplate(template_path, tenv, D, F)
    IN  IF found = None
        THEN Reply("error", {"error"}, <<"Template file not found: ", template_path>>, -1,
                   FALSE, None, <<>>, D, F)
        ELSE IF ~CanOpen(found, D, F)
        THEN Reply("error", {"error"}, <<"Failed to get template info">>, -1, FALSE, None,
                   <<EvOpen(found)>>, D, F)
        ELSE Reply("info", InfoKeys, <<>>, Len(Opened(found, D, F)), FALSE, None,
                   <<EvOpen(found)>>, D, F)

\* set_core_properties: the resolver and open_presentation are called outside
\* the try.  The core properties are no part of the slides, so the document
\* saved has the slides of the document opened.
set_core_properties_at(rp, name, F) ==
             IF rp.raised
             THEN Reply("exception", {}, <<"resolve">>, -1, TRUE, None, <<EvResolve(name)>>,
                        rp.dirs, F)
             ELSE IF ~exists(rp.path, rp.dirs, F)
             THEN Reply("error", {"error"}, <<"File not found: ", rp.path>>, -1, FALSE,
                        rp.path, <<EvResolve(name)>>, rp.dirs, F)
             ELSE IF ~CanOpen(rp.path, rp.dirs, F)
             THEN Reply("exception", {}, <<"open">>, -1, FALSE, rp.path,
                        <<EvResolve(name), EvOpen(rp.path)>>, rp.dirs, F)
             ELSE Reply("message", {"message", "file_path"},
                        <<"Core properties updated successfully">>, -1, FALSE, rp.path,
                        <<EvResolve(name), EvOpen(rp.path), EvSave(rp.path)>>, rp.dirs,
                        Write(F, SaveLoc(rp.path, rp.dirs, F), Opened(rp.path, rp.dirs, F)))

set_core_properties(name, c, e, D, F) ==
    IF ~Truthy(name)
    THEN Reply("error", {"error"}, <<"presentation_file_name is required">>, -1, FALSE, None,
               <<>>, D, F)
    ELSE set_core_properties_at(resolve_presentation_path(name, c, e, D, F), name, F)

\* an opening that does not look whether the resolved path exists
OpeningWithoutExistsCheck(rp, name, failure, shown, F) ==
    IF rp.raised
    THEN [early |-> TRUE,
          reply |-> Reply("error", {"error"}, <<failure>>, -1, TRUE, None,
                          <<EvResolve(name)>>, rp.dirs, F)]
    ELSE IF ~CanOpen(rp.path, rp.dirs, F)
    THEN [early |-> TRUE,
          reply |-> Reply("error", {"error"}, <<failure>>, -1, FALSE, rp.path,
                          <<EvResolve(name), EvOpen(rp.path)>>, rp.dirs, F)]
    ELSE [early |-> FALSE, path |-> rp.path, dirs |-> rp.dirs,
          pres |-> Opened(rp.path, rp.dirs, F)]

\* what follows the resolution rp of the file name
Opening(rp, name, failure, shown, F) ==
    IF rp.raised
    THEN [early |-> TRUE,
          reply |-> Reply("error", {"error"}, <<failure>>, -1, TRUE, None,
                          <<EvResolve(name)>>, rp.dirs, F)]
    ELSE IF ~exists(rp.path, rp.dirs, F)
    THEN [early |-> TRUE,
          reply |-> Reply("error", {"error"}, <<"File not found: ", shown>>, -1,
                          FALSE, rp.path, <<EvResolve(name)>>, rp.dirs, F)]
    ELSE IF ~CanOpen(rp.path, rp.dirs, F)
    THEN [early |-> TRUE,
          reply |-> Reply("error", {"error"}, <<failure>>, -1, FALSE, rp.path,
                          <<EvResolve(name), EvOpen(rp.path)>>, rp.dirs, F)]
    ELSE [early |-> FALSE, path |-> rp.path, dirs |-> rp.dirs,
          pres |-> Opened(rp.path, rp.dirs, F)]

\* the opening lines shared by update_chart_data, add_connector and
\* manage_slide_transitions, all inside the handler's try: the file name is
\* required, resolved (once), must exist, and is opened.  failure is the
\* handler's text for a caught exception, shown the name its "File not found"
\* carries.
OpenForRequest(name, failure, shown, c, e, D, F) ==
    IF ~Truthy(name)
    THEN [early |-> TRUE,
          reply |-> Reply("error", {"error"}, <<"presentation_file_name is required">>, -1,
                          FALSE, None, <<>>, D, F)]
    ELSE Opening(resolve_presentation_path(name, c, e, D, F), name, failure, shown, F)

\* an error response that also carries a message key
ErrorWithMessageAfterOpen(o, name, text, F) ==
    Reply("error", {"error", "message"}, text, -1, FALSE, o.path,
          <<EvResolve(name), EvOpen(o.path)>>, o.dirs, F)

\* a response after the document was opened: an error, or a message with the
\* document saved
ErrorAfterOpen(o, name, text, F) ==
    Reply("error", {"error"}, text, -1, FALSE, o.path,
          <<EvResolve(name), EvOpen(o.path)>>, o.dirs, F)

\* a message after the document read was written back as a new document
MessageAfterRewrite(o, name, keys, text, F) ==
    Reply("message", keys, text, -1, FALSE, o.path,
          <<EvResolve(name), EvOpen(o.path), EvSave(o.path)>>, o.dirs,
          Write(F, SaveLoc(o.path, o.dirs, F), DefaultDoc))

MessageAfterOpen(o, name, keys, text, F) ==
    Reply("message", keys, text, -1, FALSE, o.path,
          <<EvResolve(name), EvOpen(o.path)>>, o.dirs, F)

\* a message after the document was saved twice
MessageAfterTwoSaves(o, name, keys, text, doc, F) ==
    Reply("message", keys, text, -1, FALSE, o.path,
          <<EvResolve(name), EvOpen(o.path), EvSave(o.path), EvSave(o.path)>>, o.dirs,
          Write(F, SaveLoc(o.path, o.dirs, F), doc))

\* a message for a change that is not written to the file
MessageWithoutSave(o, name, keys, text, doc, F) ==
    Reply("message", keys, text, -1, FALSE, o.path,
          <<EvResolve(name), EvOpen(o.path), EvSave(o.path)>>, o.dirs, F)

MessageAfterSave(o, name, keys, text, doc, F) ==
    Reply("message", keys, text, -1, FALSE, o.path,
          <<EvResolve(name), EvOpen(o.path), EvSave(o.path)>>, o.dirs,
          Write(F, SaveLoc(o.path, o.dirs, F), doc))

\* a series entry is the set of its keys
Complete(series) == "name" \in series /\ "values" \in series

\* an update_chart_data that replaces the chart's data and saves before it
\* looks at the series entries
update_chart_data_replace_first(slide_index, shape_index, categories, series_data, name, c, e, D, F) ==
    LET o == OpenForRequest(name, "Failed to update chart data",
                            sanitize_presentation_name(name), c, e, D, F)
    IN  IF o.early THEN o.reply
        ELSE IF ~(0 <= slide_index /\ slide_index < Len(o.pres))
                \/ shape_index = NoIndex
                \/ ~(0 <= shape_index[1] /\ shape_index[1] < Len(o.pres[slide_index + 1]))
                \/ o.pres[slide_index + 1][shape_index[1] + 1].kind # "chart"
        THEN ErrorAfterOpen(o, name, <<"Failed to update chart data">>, F)
        ELSE LET saved == MessageAfterSave(o, name,
                              {"message", "categories", "series_count", "series_names"},
                              <<"Updated chart data", slide_index, shape_index>>,
                              [o.pres EXCEPT ![slide_index + 1][shape_index[1] + 1].data =
                                                 <<categories, series_data>>], F)
             IN  IF \E k \in 1..Len(series_data) : ~Complete(series_data[k])
                 THEN [saved EXCEPT !.outcome = "error", !.keys = {"error"},
                                    !.text = <<"Each series must have 'name' and 'values' keys">>]
                 ELSE saved

\* update_chart_data; shape_index = None makes the comparison of line 54
\* raise, which the handler catches
update_chart_data(slide_index, shape_index, categories, series_data, name, c, e, D, F) ==
    LET o == OpenForRequest(name, "Failed to update chart data",
                            sanitize_presentation_name(name), c, e, D, F)
    IN  IF o.early THEN o.reply
        ELSE IF ~(0 <= slide_index /\ slide_index < Len(o.pres))
        THEN ErrorAfterOpen(o, name, OutOfRangeText("Slide index out of range", slide_index), F)
        ELSE LET slide == o.pres[slide_index + 1]
             IN  IF shape_index = NoIndex
                 THEN ErrorAfterOpen(o, name, <<"Failed to update chart data">>, F)
                 ELSE IF ~(0 <= shape_index[1] /\ shape_index[1] < Len(slide))
                 THEN ErrorAfterOpen(o, name, OutOfRangeText("Shape index out of range", shape_index), F)
                 ELSE IF slide[shape_index[1] + 1].kind # "chart"
                 THEN ErrorAfterOpen(o, name, <<"Shape is not a chart">>, F)
                 ELSE IF \E k \in 1..Len(series_data) : ~Complete(series_data[k])
                 THEN ErrorAfterOpen(o, name,
                          <<"Each series must have 'name' and 'values' keys">>, F)
                 ELSE MessageAfterSave(o, name,
                          {"message", "categories", "series_count", "series_names"},
                          <<"Updated chart data", slide_index, shape_index>>,
                          [o.pres EXCEPT ![slide_index + 1][shape_index[1] + 1].data =
                                             <<categories, series_data>>], F)

\* str.lower on the connector types drawn
Lower(t) == IF t = "Elbow" THEN "elbow" ELSE t

ConnectorMap == {"straight", "elbow", "curved"}

\* the truth value of an Optional[List] argument: None and [] are false
TruthyList(v) == v.type = "list" /\ v.items # <<>>

\* add_connector, without its coordinates and line width; is_valid_rgb is neither imported nor passed to
\* register_connector_tools, so line 81 raises NameError for a color that is
\* true, which the handler catches
add_connector(slide_index, connector_type, color, name, c, e, D, F) ==
    LET o == OpenForRequest(name, "Failed to add connector", name, c, e, D, F)
    IN  IF o.early THEN o.reply
        ELSE IF ~(0 <= slide_index /\ slide_index < Len(o.pres))
        THEN ErrorAfterOpen(o, name, OutOfRangeText("Slide index out of range", slide_index), F)
        ELSE IF Lower(connector_type) \notin ConnectorMap
        THEN ErrorAfterOpen(o, name, <<"Invalid connector type">>, F)
        ELSE IF TruthyList(color)
        THEN ErrorAfterOpen(o, name, <<"Failed to add connector">>, F)
        ELSE MessageAfterSave(o, name,
                 {"message", "connector_type", "start_point", "end_point", "shape_index"},
                 <<"Added connector to slide", connector_type, slide_index>>,
                 [o.pres EXCEPT ![slide_index + 1] =
                     Append(@, ConnectorShape(Lower(connector_type), None))], F)

\* manage_slide_transitions: "set" and "remove" save the document as opened
manage_slide_transitions(slide_index, operation, name, c, e, D, F) ==
    LET o == OpenForRequest(name, "Failed to manage slide transitions", name, c, e, D, F)
    IN  IF o.early THEN o.reply
        ELSE IF ~(0 <= slide_index /\ slide_index < Len(o.pres))
        THEN ErrorAfterOpen(o, name, OutOfRangeText("Slide index out of range", slide_index), F)
        ELSE IF operation = "get"
        THEN MessageAfterOpen(o, name, {"message", "slide_index", "note"},
                 <<"Transition info for slide", slide_index>>, F)
        ELSE IF operation = "set"
        THEN MessageAfterSave(o, name,
                 {"message", "slide_index", "transition_type", "duration", "note"},
                 <<"Transition setting requested for slide", slide_index>>, o.pres, F)
        ELSE IF operation = "remove"
        THEN MessageAfterSave(o, name, {"message", "slide_index", "note"},
                 <<"Transition removal requested for slide", slide_index>>, o.pres, F)
        ELSE ErrorAfterOpen(o, name, <<"Unsupported operation", operation>>, F)

\* get_server_info: a fixed mapping
get_server_info(D, F) ==
    Reply("info",
          {"name", "version", "total_tools", "features", "improvements",
           "new_enhanced_features"},
          <<>>, -1, FALSE, None, <<>>, D, F)

----------------------------------------------------------------------------
(* The parameter validator (src/ppt_mcp_server.py) *)

is_positive(value) == value > 0

is_non_negative(value) == value >= 0

is_in_range_exclusive(min_val, max_val, x) == min_val < x /\ x < max_val
is_in_range(min_val, max_val, x) == min_val <= x /\ x <= max_val

\* constraint_func(value) for the predicates a handler may pass
Holds(func, value) ==
    CASE func.f = "is_positive" -> is_positive(value)
      [] func.f = "is_non_negative" -> is_non_negative(value)
      [] func.f = "is_in_range" -> is_in_range(func.lo, func.hi, value)

\* f"Parameter '{param_name}': {error_msg}"
ErrorMessage(param_name, error_msg) == <<"Parameter", param_name, error_msg>>

\* the two nested loops of validate_parameters from parameter i, constraint j
\* on; evaluated is the trace of the constraints called so far.  The first
\* failing constraint returns.
RECURSIVE validate_loop(_, _, _, _)
validate_loop(params, i, j, evaluated) ==
    IF i > Len(params)
    THEN [ok |-> TRUE, msg |-> None, evaluated |-> evaluated]
    ELSE IF j > Len(params[i].constraints)
    THEN validate_loop(params, i + 1, 1, evaluated)
    ELSE LET c == params[i].constraints[j]
             seen == Append(evaluated, <<i, j>>)
         IN  IF ~Holds(c.func, params[i].value)
             THEN [ok |-> FALSE, msg |-> ErrorMessage(params[i].name, c.msg),
                   evaluated |-> seen]
             ELSE validate_loop(params, i, j + 1, seen)

\* a validator that runs every constraint and reports the last failure
RECURSIVE validate_loop_last_failure(_, _, _, _, _)
validate_loop_last_failure(params, i, j, evaluated, failure) ==
    IF i > Len(params)
    THEN [ok |-> failure = None, msg |-> failure, evaluated |-> evaluated]
    ELSE IF j > Len(params[i].constraints)
    THEN validate_loop_last_failure(params, i + 1, 1, evaluated, failure)
    ELSE LET c == params[i].constraints[j]
         IN  validate_loop_last_failure(params, i, j + 1, Append(evaluated, <<i, j>>),
                 IF Holds(c.func, params[i].value) THEN failure
                 ELSE ErrorMessage(params[i].name, c.msg))

validate_parameters_last_failure(params) ==
    validate_loop_last_failure(params, 1, 1, <<>>, None)

validate_parameters(params) == validate_loop(params, 1, 1, <<>>)

----------------------------------------------------------------------------
(* State machine *)

\* values of -r / --presentations-root on the command line
CliArgs == {None, <<>>, <<"a">>}

\* values of PPT_PRESENTATIONS_ROOT in the environment
EnvValues == {None, <<>>, <<"/", "e">>}

BaseDirs == Prefixes(Loc(cwd))

\* the arguments of manage_hyperlinks besides the file name, and their defaults
Operations == {"list", "add", "update", "remove", "rename"}
SlideIndexes == -1..1
ShapeIndexes == {NoIndex} \cup {<<i>> : i \in -1..2}
RunIndexes == -2..1
Texts == {None, <<"t">>}
Urls == {None, <<"u">>}

HyperlinkArgs ==
    [operation : Operations, slide_index : SlideIndexes, shape_index : ShapeIndexes,
     text : Texts, url : Urls, run_index : RunIndexes]

DefaultArgs ==
    [operation |-> "list", slide_index |-> 0, shape_index |-> NoIndex,
     text |-> None, url |-> None, run_index |-> 0]

NoCall ==
    [op |-> "none", id |-> <<>>, args |-> DefaultArgs, raised |-> FALSE, path |-> None,
     outcome |-> "none", keys |-> {}, text |-> <<>>, slide_count |-> -1, io |-> <<>>, pre |-> {},
     prefiles |-> NoFiles]

\* a server that parses a root again while serving
StartupAnyTime ==
    /\ \E r \in CliArgs :
          /\ argv' = r
          /\ cli' = IF Truthy(r) THEN r ELSE cli
    /\ phase' = "serving"
    /\ UNCHANGED <<env, tplenv, dirs, files, arg, last, ncalls>>

\* the __main__ block: parse the arguments, set the module-level root
Startup ==
    /\ phase = "boot"
    /\ \E r \in CliArgs :
          /\ argv' = r
          /\ cli' = IF Truthy(r) THEN r ELSE cli
    /\ phase' = "serving"
    /\ UNCHANGED <<env, tplenv, dirs, files, arg, last, ncalls>>

\* one call of resolve_presentation_path(n)
ResolveCall(n) ==
    /\ phase = "serving"
    /\ ncalls < MaxCalls
    /\ LET r == resolve_presentation_path(n, cli, env, dirs, files)
       IN  /\ dirs' = r.dirs
           /\ last' = [op |-> "resolve", id |-> n, args |-> DefaultArgs,
                       raised |-> r.raised, path |-> r.path,
                       outcome |-> IF r.raised THEN "exception" ELSE "returned", keys |-> {},
                       text |-> <<>>, slide_count |-> -1, io |-> <<>>, pre |-> dirs,
                       prefiles |-> files]
    /\ ncalls' = ncalls + 1
    /\ UNCHANGED <<phase, cli, env, tplenv, files, arg, argv>>

Resolve == ResolveCall(arg)

InitResolve ==
    /\ phase = "boot"
    /\ cli = None
    /\ argv = None
    /\ env \in EnvValues
    /\ tplenv = None
    /\ dirs = BaseDirs
    /\ files \in {NoFiles, FileAt(Loc(cwd) \o <<<<"a">>>>, DefaultDoc)}
    /\ arg \in StringsUpTo(MaxLen)
    /\ last = NoCall
    /\ ncalls = 0

NextResolve == Startup \/ Resolve

SpecResolve == InitResolve /\ [][NextResolve]_vars

----------------------------------------------------------------------------
(* The server: requests on identifiers *)

RequestIds == StringsUpTo(MaxReqLen)

TemplatePaths == {<<"a">>, <<"t">>, <<"x">>}

\* the environments a server may start in: an empty working directory; a
\* working directory that is the root (PPT_PRESENTATIONS_ROOT="") and holds a
\* deck "a" and a template "templates/t"; the same directory with the default
\* root and PPT_TEMPLATE_PATH set
TemplatesDir == Loc(cwd) \o <<<<"t", "e", "m", "p", "l", "a", "t", "e", "s">>>>
DeckFiles ==
    Write(FileAt(Loc(cwd) \o <<<<"a">>>>, RichDoc), TemplatesDir \o <<<<"t">>>>, DefaultDoc)
Setups ==
    {[env |-> None, tplenv |-> None, dirs |-> BaseDirs, files |-> NoFiles],
     [env |-> <<>>, tplenv |-> None, dirs |-> BaseDirs \cup {TemplatesDir}, files |-> DeckFiles],
     [env |-> None, tplenv |-> <<":", "/", "w">>, dirs |-> BaseDirs \cup {TemplatesDir},
      files |-> DeckFiles]}

\* one request served: the handler's reply and its effects on disk
Serve(op, name, args, r) ==
    /\ dirs' = r.dirs
    /\ files' = r.files
    /\ last' = [op |-> op, id |-> name, args |-> args, raised |-> r.raised, path |-> r.path,
                outcome |-> r.outcome, keys |-> r.keys, text |-> r.text, slide_count |-> r.slide_count,
                io |-> r.io, pre |-> dirs, prefiles |-> files]
    /\ ncalls' = ncalls + 1
    /\ UNCHANGED <<phase, cli, env, tplenv, arg, argv>>

Accepting == phase = "serving" /\ ncalls < MaxCalls

CreatePresentation ==
    /\ Accepting
    /\ \E name \in RequestIds :
          Serve("create_presentation", name, DefaultArgs,
                create_presentation(name, cli, env, dirs, files))

CreatePresentationFromTemplate ==
    /\ Accepting
    /\ \E template_path \in TemplatePaths, name \in RequestIds :
          Serve("create_presentation_from_template", name, DefaultArgs,
                create_presentation_from_template(template_path, name, cli, env, tplenv,
                                                  dirs, files))

OpenPresentation ==
    /\ Accepting
    /\ \E name \in RequestIds :
          Serve("open_presentation", name, DefaultArgs,
                open_presentation(name, cli, env, dirs, files))

\* manage_hyperlinks reads its arguments in a fixed order and returns at the
\* first that fails; an argument it never reads is drawn at its default only
ArgsRead(a, pres) ==
    LET slideOK == 0 <= a.slide_index /\ a.slide_index < Len(pres)
        slide == pres[a.slide_index + 1]
        shapeOK == /\ a.shape_index # NoIndex
                   /\ 0 <= a.shape_index[1] /\ a.shape_index[1] < Len(slide)
                   /\ slide[a.shape_index[1] + 1].kind = "text"
        Only(fields) ==
            [f \in DOMAIN a |-> IF f \in fields THEN a[f] ELSE DefaultArgs[f]]
    IN  IF ~slideOK \/ a.operation = "list"
        THEN Only({"operation", "slide_index"})
        ELSE IF ~shapeOK \/ a.operation \notin {"add", "update", "remove"}
        THEN Only({"operation", "slide_index", "shape_index"})
        ELSE IF a.operation = "add"
        THEN Only({"operation", "slide_index", "shape_index", "text", "url"})
        ELSE IF a.operation = "update"
        THEN IF a.url = None
             THEN Only({"operation", "slide_index", "shape_index", "url"})
             ELSE Only({"operation", "slide_index", "shape_index", "url", "run_index"})
        ELSE Only({"operation", "slide_index", "shape_index", "run_index"})

ReachesDocument(name) ==
    /\ name # None /\ name # <<>>
    /\ LET rp == resolve_presentation_path(name, cli, env, dirs, files)
       IN  ~rp.raised /\ CanOpen(rp.path, rp.dirs, files)

ArgsFor(name) ==
    IF ReachesDocument(name)
    THEN LET rp == resolve_presentation_path(name, cli, env, dirs, files)
             pres == Opened(rp.path, rp.dirs, files)
         IN  {a \in HyperlinkArgs : a = ArgsRead(a, pres)}
    ELSE {DefaultArgs}

ManageHyperlinks ==
    /\ Accepting
    /\ \E name \in RequestIds \cup {None} :
          \E a \in ArgsFor(name) :
             Serve("manage_hyperlinks", name, a,
                   manage_hyperlinks(a.operation, a.slide_index, a.shape_index, a.text,
                                     a.url, a.run_index, name, cli, env, dirs, files))

Init ==
    /\ phase = "boot"
    /\ cli = None
    /\ argv = None
    /\ \E s \in Setups :
          /\ env = s.env
          /\ tplenv = s.tplenv
          /\ dirs = s.dirs
          /\ files = s.files
    /\ arg = <<>>
    /\ last = NoCall
    /\ ncalls = 0

Next ==
    \/ Startup
    \/ CreatePresentation
    \/ CreatePresentationFromTemplate
    \/ OpenPresentation
    \/ ManageHyperlinks

Spec == Init /\ [][Next]_vars

----------------------------------------------------------------------------
(* The server: one request to any registered tool *)

\* the environments of Setups with a chart in the deck
ChartFiles ==
    Write(FileAt(Loc(cwd) \o <<<<"a">>>>, ChartDoc), TemplatesDir \o <<<<"t">>>>, DefaultDoc)
ToolSetups ==
    {[env |-> None, tplenv |-> None, dirs |-> BaseDirs, files |-> NoFiles],
     [env |-> <<>>, tplenv |-> None, dirs |-> BaseDirs \cup {TemplatesDir},
      files |-> ChartFiles]}

FilePaths == {None, <<"b">>, <<"x", "/", "b">>}
Categories == {<<"c">>}
SeriesEntries == {{"name", "values"}, {"name"}}
SeriesData == UNION {[1..n -> SeriesEntries] : n \in 0..MaxSeries}
ConnectorTypes == {"straight", "Elbow", "zigzag"}
Colors ==
    {PyValue("NoneType", <<>>), PyValue("list", <<>>),
     PyValue("list", <<PyItem("int", 255), PyItem("int", 0), PyItem("int", 0)>>)}
TransitionOperations == {"get", "set", "remove", "flip"}

AcceptingTool == phase = "serving" /\ ncalls < MaxToolCalls

SavePresentation ==
    /\ AcceptingTool
    /\ \E name \in RequestIds, file_path \in FilePaths :
          Serve("save_presentation", name, [file_path |-> file_path],
                save_presentation(name, file_path, cli, env, dirs, files))

GetPresentationInfo ==
    /\ AcceptingTool
    /\ \E name \in RequestIds :
          Serve("get_presentation_info", name, DefaultArgs,
                get_presentation_info(name, cli, env, dirs, files))

GetTemplateFileInfo ==
    /\ AcceptingTool
    /\ \E template_path \in TemplatePaths :
          Serve("get_template_file_info", None, [template_path |-> template_path],
                get_template_file_info(template_path, tplenv, dirs, files))

SetCoreProperties ==
    /\ AcceptingTool
    /\ \E name \in RequestIds \cup {None} :
          Serve("set_core_properties", name, DefaultArgs,
                set_core_properties(name, cli, env, dirs, files))

UpdateChartData ==
    /\ AcceptingTool
    /\ \E name \in RequestIds \cup {None}, slide_index \in SlideIndexes,
          shape_index \in ShapeIndexes, categories \in Categories,
          series_data \in SeriesData :
          Serve("update_chart_data", name,
                [slide_index |-> slide_index, shape_index |-> shape_index,
                 categories |-> categories, series_data |-> series_data],
                update_chart_data(slide_index, shape_index, categories, series_data, name,
                                  cli, env, dirs, files))

AddConnector ==
    /\ AcceptingTool
    /\ \E name \in RequestIds \cup {None}, slide_index \in SlideIndexes,
          connector_type \in ConnectorTypes, color \in Colors :
          Serve("add_connector", name,
                [slide_index |-> slide_index, connector_type |-> connector_type,
                 color |-> color],
                add_connector(slide_index, connector_type, color, name, cli, env, dirs,
                              files))

ManageSlideTransitions ==
    /\ AcceptingTool
    /\ \E name \in RequestIds \cup {None}, slide_index \in SlideIndexes,
          operation \in TransitionOperations :
          Serve("manage_slide_transitions", name,
                [slide_index |-> slide_index, operation |-> operation],
                manage_slide_transitions(slide_index, operation, name, cli, env, dirs,
                                         files))

GetServerInfo ==
    /\ AcceptingTool
    /\ Serve("get_server_info", None, DefaultArgs, get_server_info(dirs, files))

InitTools ==
    /\ phase = "boot"
    /\ cli = None
    /\ argv = None
    /\ \E s \in ToolSetups :
          /\ env = s.env
          /\ tplenv = s.tplenv
          /\ dirs = s.dirs
          /\ files = s.files
    /\ arg = <<>>
    /\ last = NoCall
    /\ ncalls = 0

NextTools ==
    \/ Startup
    \/ (AcceptingTool /\ CreatePresentation)
    \/ (AcceptingTool /\ CreatePresentationFromTemplate)
    \/ (AcceptingTool /\ OpenPresentation)
    \/ (AcceptingTool /\ ManageHyperlinks)
    \/ SavePresentation
    \/ GetPresentationInfo
    \/ GetTemplateFileInfo
    \/ SetCoreProperties
    \/ UpdateChartData
    \/ AddConnector
    \/ ManageSlideTransitions
    \/ GetServerInfo

SpecTools == InitTools /\ [][NextTools]_vars

----------------------------------------------------------------------------
(* The validator applied to drawn parameter mappings *)

Values == -1..1

Funcs ==
    {[f |-> "is_positive", lo |-> 0, hi |-> 0],
     [f |-> "is_non_negative", lo |-> 0, hi |-> 0],
     [f |-> "is_in_range", lo |-> 0, hi |-> 0]}

\* the j-th constraint of a parameter carries its own message
WithMessages(fs) == [j \in 1..Len(fs) |-> [func |-> fs[j], msg |-> <<"m", j>>]]

ConstraintLists == {WithMessages(fs) : fs \in UNION {[1..k -> Funcs] : k \in 0..MaxConstraints}}

\* the orders in which a mapping can hold the parameter names
NameOrders == {<<>>, <<"x">>, <<"y">>, <<"x", "y">>, <<"y", "x">>}

Named(names, m) ==
    [i \in 1..Len(names) |->
        [name |-> names[i], value |-> m[i].value, constraints |-> m[i].constraints]]

Validate ==
    /\ phase = "serving"
    /\ ncalls < 1
    /\ LET r == validate_parameters(arg)
       IN  last' = [op |-> "validate", ok |-> r.ok, msg |-> r.msg, evaluated |-> r.evaluated]
    /\ ncalls' = ncalls + 1
    /\ UNCHANGED <<phase, cli, env, tplenv, dirs, files, arg, argv>>

InitValidate ==
    /\ phase = "serving"
    /\ cli = None
    /\ argv = None
    /\ env = None
    /\ tplenv = None
    /\ dirs = BaseDirs
    /\ files = NoFiles
    /\ \E names \in NameOrders :
         \E m \in [1..Len(names) -> [value : Values, constraints : ConstraintLists]] :
            arg = Named(names, m)
    /\ last = NoCall
    /\ ncalls = 0

NextValidate == Validate

SpecValidate == InitValidate /\ [][NextValidate]_vars

----------------------------------------------------------------------------
(* The value checks and the sanitizer applied to drawn inputs *)

\* a process at rest, about to apply one function to the input arg
AtRest(inputs) ==
    /\ phase = "serving"
    /\ cli = None
    /\ argv = None
    /\ env = None
    /\ tplenv = None
    /\ dirs = BaseDirs
    /\ files = NoFiles
    /\ arg \in inputs
    /\ last = NoCall
    /\ ncalls = 0

\* one application of a function to arg, with its result
Apply(op, result) ==
    /\ phase = "serving"
    /\ ncalls < 1
    /\ last' = [op |-> op, result |-> result]
    /\ ncalls' = ncalls + 1
    /\ UNCHANGED <<phase, cli, env, tplenv, dirs, files, arg, argv>>

RgbItems ==
    {PyItem("int", v) : v \in {-1, 0, 255, 256}}
        \cup {PyItem("bool", v) : v \in {0, 1}}
        \cup {PyItem("float", 1), PyItem("str", 0)}

RgbValues ==
    {PyValue("NoneType", <<>>)}
        \cup {PyValue(t, items) : t \in {"list", "tuple"},
                                  items \in UNION {[1..n -> RgbItems] : n \in 0..MaxRgbLen}}

IsValidRgb == Apply("is_valid_rgb", is_valid_rgb(arg))
InitRgb == AtRest(RgbValues)
NextRgb == IsValidRgb
SpecRgb == InitRgb /\ [][NextRgb]_vars

RangeValues == -1..MaxRange

IsInRange == Apply("is_in_range", is_in_range(arg[1], arg[2], arg[3]))
InitRange == AtRest(RangeValues \X RangeValues \X RangeValues)
NextRange == IsInRange
SpecRange == InitRange /\ [][NextRange]_vars

SanitizeAlphabet == {"/", "\\", "a", " "}
SanitizeInputs ==
    {None} \cup UNION {[1..n -> SanitizeAlphabet] : n \in 0..MaxLen}

Sanitize == Apply("sanitize_presentation_name", sanitize_presentation_name(arg))
InitSanitize == AtRest(SanitizeInputs)
NextSanitize == Sanitize
SpecSanitize == InitSanitize /\ [][NextSanitize]_vars

----------------------------------------------------------------------------
(* Template lookups while PPT_TEMPLATE_PATH and the directories change *)

\* the values of PPT_TEMPLATE_PATH: unset, or a string over ':', '/', '~', ' '
TemplateEnvValues ==
    {None} \cup UNION {[1..n -> {":", "/", "~", " "}] : n \in 0..MaxEnvLen}

\* the result of the lookup before this one, None before the first
PreviousLookup ==
    IF last.op = "get_template_search_directories" THEN last.result ELSE None

\* a lookup that keeps the first result it computed
search_dirs_cached(prev, tenv, D, F) ==
    IF prev # None THEN prev ELSE get_template_search_directories(tenv, D, F)

\* search_dirs = get_template_search_directories() of a handler: the function
\* is called anew by each request and reads the environment and the
\* filesystem as they are then
search_dirs(prev, tenv, D, F) == get_template_search_directories(tenv, D, F)

\* one lookup of the template search directories
Lookup ==
    /\ phase = "serving"
    /\ ncalls < MaxLookups
    /\ last' = [op |-> "get_template_search_directories",
                result |-> search_dirs(PreviousLookup, tplenv, dirs, files),
                prev |-> PreviousLookup,
                tplenv |-> tplenv,
                dirs |-> dirs]
    /\ ncalls' = ncalls + 1
    /\ UNCHANGED <<phase, cli, env, tplenv, dirs, files, arg, argv>>

\* the process environment changes between two lookups
SetTemplatePath ==
    /\ ncalls < MaxLookups
    /\ tplenv' \in TemplateEnvValues \ {tplenv}
    /\ UNCHANGED <<phase, cli, env, dirs, files, arg, argv, last, ncalls>>

\* the user's home directory is created or removed between two lookups
MakeHome ==
    /\ ncalls < MaxLookups
    /\ Loc(home) \notin dirs
    /\ dirs' = dirs \cup {Loc(home)}
    /\ UNCHANGED <<phase, cli, env, tplenv, files, arg, argv, last, ncalls>>

RemoveHome ==
    /\ ncalls < MaxLookups
    /\ Loc(home) \in dirs
    /\ dirs' = dirs \ {Loc(home)}
    /\ UNCHANGED <<phase, cli, env, tplenv, files, arg, argv, last, ncalls>>

InitSearch == AtRest({None})
NextSearch == Lookup \/ SetTemplatePath \/ MakeHome \/ RemoveHome
SpecSearch == InitSearch /\ [][NextSearch]_vars

----------------------------------------------------------------------------
(* Two requests in flight on the same file: each handler opens the file,   *)
(* changes the document in memory and saves it; between its open and its   *)
(* save the other request may run (two server processes on one root, or    *)
(* two workers of one).                                                    *)

DeckLoc == Loc(cwd) \o <<<<"a">>>>

\* requests that change the deck "a" of ChartFiles, by two identifiers that
\* resolve to the same path
RaceRequests ==
    LET RaceIds == {<<"a">>, <<"a", " ">>}
        RaceCalls ==
            {[op |-> "manage_hyperlinks",
              args |-> [operation |-> o, slide_index |-> 0, shape_index |-> <<0>>,
                        text |-> <<"t">>, url |-> <<"u">>, run_index |-> 0]] :
                 o \in {"add", "update", "remove"}}
              \cup {[op |-> "update_chart_data",
                     args |-> [slide_index |-> 0, shape_index |-> <<1>>, categories |-> <<"c">>,
                               series_data |-> <<{"name", "values"}>>]],
                    [op |-> "add_connector",
                     args |-> [slide_index |-> 0, connector_type |-> "straight",
                               color |-> PyValue("NoneType", <<>>)]],
                    [op |-> "manage_slide_transitions",
                     args |-> [slide_index |-> 0, operation |-> "set"]],
                    [op |-> "set_core_properties", args |-> DefaultArgs]}
    IN  {[op |-> k.op, args |-> k.args, id |-> n] : k \in RaceCalls, n \in RaceIds}

\* the handler of a request, run from its resolution to its return on the
\* filesystem it finds
Handle(req, c, e, D, F) ==
    CASE req.op = "manage_hyperlinks" ->
             manage_hyperlinks(req.args.operation, req.args.slide_index, req.args.shape_index,
                               req.args.text, req.args.url, req.args.run_index, req.id,
                               c, e, D, F)
      [] req.op = "update_chart_data" ->
             update_chart_data(req.args.slide_index, req.args.shape_index,
                               req.args.categories, req.args.series_data, req.id, c, e, D, F)
      [] req.op = "add_connector" ->
             add_connector(req.args.slide_index, req.args.connector_type, req.args.color,
                           req.id, c, e, D, F)
      [] req.op = "manage_slide_transitions" ->
             manage_slide_transitions(req.args.slide_index, req.args.operation, req.id,
                                      c, e, D, F)
      [] OTHER -> set_core_properties(req.id, c, e, D, F)

Saves(r) == r.io # <<>> /\ r.io[Len(r.io)][1] = "save"

\* the document a handler holds in memory when it reaches its save: the one
\* it opened, with its own change
InMemory(r) == r.files[SaveLoc(r.path, r.dirs, r.files)]

\* a save that opens the file again and applies the change to what it finds
pres_saved_reopened(req, r, c, e, D, F) == InMemory(Handle(req, c, e, D, F))

\* the pres of ppt_utils.save_presentation(pres, path): the document opened at
\* the start of the request, whatever the file holds by now
pres_saved(req, r, c, e, D, F) == InMemory(r)

\* a request arrives: its handler resolves the path, tests that it exists and
\* opens the document
OpenForRequestOf(i) ==
    /\ arg[i].pc = "idle"
    /\ \E req \in RaceRequests :
          LET r == Handle(req, cli, env, dirs, files)
          IN  /\ arg' = [arg EXCEPT ![i] = [pc |-> "opened", req |-> req, r |-> r]]
              /\ dirs' = r.dirs
    /\ last' = [last EXCEPT !.order = Append(@, <<"open", i>>)]
    /\ UNCHANGED <<phase, cli, env, tplenv, files, argv, ncalls>>

\* the handler saves its document to the resolved path and returns
SaveAndReturn(i) ==
    /\ arg[i].pc = "opened"
    /\ files' = IF Saves(arg[i].r)
                THEN Write(files, SaveLoc(arg[i].r.path, dirs, files),
                           pres_saved(arg[i].req, arg[i].r, cli, env, dirs, files))
                ELSE files
    /\ arg' = [arg EXCEPT ![i].pc = "returned"]
    /\ last' = [last EXCEPT !.order = Append(@, <<"save", i>>)]
    /\ ncalls' = ncalls + 1
    /\ UNCHANGED <<phase, cli, env, tplenv, dirs, argv>>

InitRace ==
    /\ phase = "serving"
    /\ cli = None
    /\ argv = None
    /\ env = <<>>
    /\ tplenv = None
    /\ dirs = BaseDirs \cup {TemplatesDir}
    /\ files = ChartFiles
    /\ arg = <<[pc |-> "idle"], [pc |-> "idle"]>>
    /\ last = [op |-> "concurrent", order |-> <<>>]
    /\ ncalls = 0
NextRace == (\E i \in 1..2 : OpenForRequestOf(i)) \/ (\E i \in 1..2 : SaveAndReturn(i))
SpecRace == InitRace /\ [][NextRace]_vars

----------------------------------------------------------------------------
(* Template lookups by the handlers: templates of one name in several      *)
(* search directories, a directory where a template is expected            *)

AssetsDir == Loc(cwd) \o <<<<"a", "s", "s", "e", "t", "s">>>>

\* /h/t, ./templates/t and ./assets/t are three different decks, ./assets/s
\* exists in one search directory only, ./templates/d is a directory
TemplateSetups ==
    {[tplenv |-> tenv,
      dirs |-> BaseDirs \cup {TemplatesDir, AssetsDir, Loc(home), TemplatesDir \o <<<<"d">>>>},
      files |-> Write(Write(Write(FileAt(TemplatesDir \o <<<<"t">>>>, DefaultDoc),
                                  AssetsDir \o <<<<"t">>>>, RichDoc),
                            AssetsDir \o <<<<"s">>>>, RichDoc),
                      Loc(home) \o <<<<"t">>>>, ChartDoc)] :
        tenv \in {None, <<"~">>, <<"/", "n", ":", "~">>}}

SearchedTemplates ==
    {<<"t">>, <<"q", "/", "t">>, <<"s">>, <<"d">>, <<"x">>,
     <<"t", "e", "m", "p", "l", "a", "t", "e", "s", "/", "t">>,
     <<"t", "e", "m", "p", "l", "a", "t", "e", "s">>}

CreateFromSearchedTemplate ==
    /\ AcceptingTool
    /\ \E template_path \in SearchedTemplates, name \in RequestIds :
          Serve("create_presentation_from_template", name,
                [template_path |-> template_path],
                create_presentation_from_template(template_path, name, cli, env, tplenv,
                                                  dirs, files))

GetSearchedTemplateInfo ==
    /\ AcceptingTool
    /\ \E template_path \in SearchedTemplates :
          Serve("get_template_file_info", None, [template_path |-> template_path],
                get_template_file_info(template_path, tplenv, dirs, files))

InitTemplates ==
    /\ phase = "serving"
    /\ cli = None
    /\ argv = None
    /\ env = None
    /\ arg = None
    /\ last = NoCall
    /\ ncalls = 0
    /\ \E s \in TemplateSetups :
          /\ tplenv = s.tplenv
          /\ dirs = s.dirs
          /\ files = s.files
NextTemplates == CreateFromSearchedTemplate \/ GetSearchedTemplateInfo
SpecTemplates == InitTemplates /\ [][NextTemplates]_vars

----------------------------------------------------------------------------
(* Claims about the path resolver *)

\* the last call was a resolution that returned a path
Resolved == last.op = "resolve" /\ ~last.raised

\* a bare identifier: not absolute, no directory separator
IsBare(n) == ~isabs(n) /\ \A j \in 1..Len(n) : n[j] # "/"

\* abs(root) of the current RootConfiguration
AbsRoot == abspath(get_presentations_root(cli, env))

\* a basename that contains a period and does not begin with one
FileLike(b) == (\E j \in 1..Len(b) : b[j] = ".") /\ (b = <<>> \/ b[1] # ".")

\* a basename that contains a period at a position other than the first
DotNotFirst(b) == \E j \in 2..Len(b) : b[j] = "."

\* os.path.splitext(b)[1] = '': no period with a non-period character before it
NoExtension(b) == ~\E j \in 2..Len(b) : b[j] = "." /\ \E k \in 1..(j - 1) : b[k] # "."

\* C1 as stated: a bare identifier n resolves to join(abs(root), n), and
\* abs(root) exists afterwards
C1_AsStated ==
    (Resolved /\ IsBare(last.id)) =>
        /\ last.path = join(AbsRoot, last.id)
        /\ Loc(AbsRoot) \in dirs

\* C1 amended: a bare identifier n resolves to join(abs(root), n.strip()):
\* the identifier is trimmed first; abs(root) exists after the call
C1_BareJoinsRoot ==
    (Resolved /\ IsBare(last.id)) =>
        /\ last.path = join(AbsRoot, Strip(last.id))
        /\ isdir(AbsRoot, dirs, files)

C1_Witness ==
    /\ Resolved /\ IsBare(last.id)
    /\ last.id # Strip(last.id) /\ Strip(last.id) # <<>>
    /\ Loc(AbsRoot) \notin last.pre
    /\ Loc(AbsRoot) \in dirs

\* C2 as stated: for an absolute p whose basename has a period not at
\* position 0, dirname(p) exists after the call and p was not created as a
\* directory
C2_AsStated ==
    (Resolved /\ isabs(last.id) /\ DotNotFirst(basename(last.id))) =>
        /\ isdir(dirname(last.id), dirs, files)
        /\ ~(isdir(last.id, dirs, files) /\ ~isdir(last.id, last.pre, files))

\* C2 amended: for an absolute p whose basename contains a period and does
\* not begin with one, the parent of the normalised path abspath(p.strip())
\* exists after the call, and that path itself is not created as a directory
C2_FileParentCreated ==
    (Resolved /\ isabs(last.id) /\ FileLike(basename(last.id))) =>
        LET q == abspath(Strip(last.id))
        IN  /\ last.path = q
            /\ Loc(dirname(q)) \in dirs
            /\ Loc(q) \in dirs => Loc(q) \in last.pre
            /\ dirs = last.pre \cup Prefixes(Loc(dirname(q)))

C2_Witness ==
    /\ Resolved /\ isabs(last.id) /\ FileLike(basename(last.id))
    /\ Loc(dirname(last.path)) \notin last.pre
    /\ Loc(dirname(last.path)) \in dirs
    /\ Loc(last.path) \notin dirs

\* C3 as stated: for an absolute p whose basename has no extension, p itself
\* is a directory after the call and p is returned
C3_AsStated ==
    (Resolved /\ isabs(last.id) /\ NoExtension(basename(last.id))) =>
        /\ isdir(last.id, dirs, files)
        /\ last.path = last.id

\* C3 amended: for an absolute p, with q = abspath(p.strip()) the normalised
\* path: when the basename of q contains no period or begins with one, q
\* itself is created (recursively) as a directory and q is returned
C3_DirCreated ==
    (Resolved /\ isabs(last.id) /\ ~FileLike(basename(abspath(Strip(last.id))))) =>
        LET q == abspath(Strip(last.id))
        IN  /\ last.path = q
            /\ Prefixes(Loc(q)) \subseteq dirs
            /\ isdir(q, dirs, files)

C3_Witness ==
    /\ Resolved /\ isabs(last.id)
    /\ ~FileLike(basename(abspath(Strip(last.id))))
    /\ Len(Loc(last.path)) >= 2
    /\ Parent(Loc(last.path)) \notin last.pre
    /\ Loc(last.path) \in dirs

\* C4: after a successful resolution of any identifier, the parent directory
\* of the returned path exists on disk
C4_ParentExists ==
    Resolved => isdir(dirname(last.path), dirs, files)

C4_Witness ==
    /\ Resolved /\ ~IsBare(last.id) /\ ~isabs(last.id)
    /\ ~isdir(dirname(last.path), last.pre, files)
    /\ isdir(dirname(last.path), dirs, files)

\* C5: a bare identifier resolves to a location inside abs(root)
C5_InsideRoot ==
    (Resolved /\ IsBare(last.id)) =>
        Loc(AbsRoot) \in Prefixes(Loc(normpath(last.path)))

\* C6: after a resolution that returned, resolving the same identifier again
\* under the same RootConfiguration returns the same path, raises nothing and
\* leaves the set of directories as it was
C6_Idempotent ==
    [][(/\ Resolved
        /\ last'.op = "resolve" /\ last'.id = last.id
        /\ ncalls' = ncalls + 1)
       => (/\ ~last'.raised
           /\ last'.path = last.path
           /\ dirs' = dirs)]_vars

C6_Witness ==
    /\ Resolved /\ ncalls = 2
    /\ last.pre = dirs
    /\ dirs # BaseDirs

\* C8 as stated: the CLI root when one was given, else the environment
\* variable when set, else "./presentations"
C8_AsStated ==
    phase = "serving" =>
        get_presentations_root(cli, env) =
            IF argv # None THEN argv
            ELSE IF env # None THEN env ELSE DefaultRoot

\* C8 amended: the CLI root when a non-empty one was given, else the
\* environment variable when set (even to the empty string), else
\* "./presentations"
C8_RootPriority ==
    phase = "serving" =>
        get_presentations_root(cli, env) =
            IF argv # None /\ argv # <<>> THEN argv
            ELSE IF env # None THEN env ELSE DefaultRoot

C8_Witness ==
    /\ phase = "serving"
    /\ argv # None /\ argv # <<>> /\ env # None
    /\ get_presentations_root(cli, env) = argv
    /\ Resolved /\ IsBare(last.id) /\ Strip(last.id) # <<>>
    /\ last.path = join(abspath(argv), Strip(last.id))

----------------------------------------------------------------------------
(* Claims about the request handlers and the root configuration *)

\* the last request called the resolver
CalledResolver == \E k \in 1..Len(last.io) : last.io[k] = EvResolve(last.id)

\* directory creation fails for the last request's identifier on the
\* filesystem the request found
CreationFails ==
    resolve_presentation_path(last.id, cli, env, last.pre, last.prefiles).raised

\* C7 as stated: when directory creation fails in the resolver, the resolver
\* raises and returns no path, and the handler opens and saves no
\* presentation file in that request
C7_AsStated ==
    (CalledResolver /\ CreationFails) =>
        /\ last.raised /\ last.path = None
        /\ \A k \in 1..Len(last.io) : last.io[k][1] \notin {"open", "save"}

\* C7 amended: when directory creation fails in the resolver, the resolver
\* raises and returns no path, and the handler opens and saves nothing after
\* the failure: the resolution is its last step, no file is written, and the
\* only presentation opened in the request is the template that
\* create_presentation_from_template loads before it resolves the target.
\* manage_hyperlinks answers with an error, the other handlers let the
\* exception escape
C7_NoIoAfterFailure ==
    (CalledResolver /\ CreationFails) =>
        /\ last.raised /\ last.path = None
        /\ last.io[Len(last.io)] = EvResolve(last.id)
        /\ \A k \in 1..(Len(last.io) - 1) :
              /\ last.io[k][1] = "open"
              /\ last.op = "create_presentation_from_template"
              /\ k = 1
        /\ files = last.prefiles
        /\ last.outcome = IF last.op = "manage_hyperlinks" THEN "error" ELSE "exception"

C7_Witness ==
    /\ CalledResolver /\ CreationFails
    /\ last.op = "create_presentation_from_template"
    /\ Len(last.io) = 2
    /\ last.io[1][1] = "open"
    /\ last.outcome = "exception"

\* C9: once the server is serving, no request changes the RootConfiguration
\* (the CLI root, the environment value, and so the root they give), and
\* every bare name a request resolves is joined to that same root
C9_RootFixed ==
    [][phase = "serving" =>
         /\ cli' = cli /\ env' = env
         /\ get_presentations_root(cli', env') = get_presentations_root(cli, env)
         /\ (last'.id # None /\ IsBare(last'.id) /\ last'.path # None) =>
               last'.path = join(AbsRoot, Strip(last'.id))]_vars

C9_Witness ==
    /\ ncalls = 2
    /\ Truthy(argv)
    /\ last.id # None /\ IsBare(last.id) /\ Strip(last.id) # <<>>
    /\ last.op = "open_presentation"
    /\ last.outcome = "message"
    /\ last.path = join(abspath(argv), Strip(last.id))

\* the error texts of the handlers' argument checks
ArgumentCheckTexts ==
    {"Unsupported operation", "Invalid connector type",
     "Both 'text' and 'url' are required", "URL is required",
     "Each series must have 'name' and 'values' keys",
     "Shape is not a chart", "Shape does not contain text"}

ArgumentCheckFailed ==
    /\ last.outcome = "error"
    /\ last.text # <<>>
    /\ last.text[1] \in ArgumentCheckTexts

\* the last request saved a presentation
SavedSomething == \E k \in 1..Len(last.io) : last.io[k][1] = "save"

\* C13: a handler that returns an error because an argument check failed has
\* not saved: the files on disk and their content are as before the request
C13_NoWriteOnArgumentError ==
    ArgumentCheckFailed => (files = last.prefiles /\ ~SavedSomething)

C13_Witness ==
    /\ ArgumentCheckFailed
    /\ last.op = "update_chart_data"
    /\ last.text[1] = "Each series must have 'name' and 'values' keys"
    /\ Len(last.args.series_data) = 2
    /\ Complete(last.args.series_data[1])
    /\ files = last.prefiles

\* the last request returned a response (no exception left the handler)
Returned == last.op # "none" /\ last.outcome # "exception"

ExactlyOneOfMessageError ==
    ("message" \in last.keys) # ("error" \in last.keys)

\* C14 as stated: every response a tool returns contains exactly one of the
\* keys message and error
C14_AsStated ==
    Returned => ExactlyOneOfMessageError

\* the tools that return a mapping of their own on success: the fixed server
\* description, and the document library's info mapping
InfoTools == {"get_server_info", "get_presentation_info", "get_template_file_info"}

\* C14 amended: no response has both keys; an error response has the key
\* error alone; every response of a tool other than get_server_info,
\* get_presentation_info and get_template_file_info has exactly one of the two
\* keys; get_server_info returns its description, which has neither, and the
\* two info tools return an error response or, on success, the library's info
\* mapping instead of a message response
C14_OneOfMessageError ==
    Returned =>
        /\ ~({"message", "error"} \subseteq last.keys)
        /\ last.outcome = "error" <=> last.keys = {"error"}
        /\ last.outcome = "message" <=> "message" \in last.keys
        /\ last.op \notin InfoTools => ExactlyOneOfMessageError
        /\ last.outcome \notin {"message", "error"} =>
              /\ last.op \in InfoTools
              /\ last.outcome = "info"
        /\ last.op = "get_server_info" =>
              /\ last.outcome = "info"
              /\ last.keys \cap {"message", "error"} = {}

C14_Witness ==
    /\ Returned
    /\ last.op = "manage_slide_transitions"
    /\ last.args.operation = "get"
    /\ last.keys = {"message", "slide_index", "note"}

\* the document library raised in the last request: its last file operation
\* was an open of what is no presentation file, or a save where no file can
\* be written
LibraryRaised ==
    /\ last.io # <<>>
    /\ LET ev == last.io[Len(last.io)]
       IN  \/ ev[1] = "open" /\ ~CanOpen(ev[2], dirs, last.prefiles)
           \/ ev[1] = "save" /\ SaveLoc(ev[2], dirs, last.prefiles) = NoLoc

\* C15: when the document library raises during open or save, the handler
\* catches the failure and returns an error response; no exception leaves the
\* handler
C15_LibraryFailureCaught ==
    LibraryRaised => (last.outcome = "error" /\ "error" \in last.keys)

\* the handlers that work on an existing presentation file
FileTools ==
    {"open_presentation", "save_presentation", "get_presentation_info",
     "set_core_properties", "update_chart_data", "add_connector", "manage_hyperlinks",
     "manage_slide_transitions"}

\* the resolution the last request made, on the filesystem it found
LastResolution ==
    resolve_presentation_path(last.id, cli, env, last.pre, last.prefiles)

\* the last request resolved its file name to a path that does not exist
ResolvedPathMissing ==
    /\ last.op \in FileTools
    /\ CalledResolver
    /\ ~LastResolution.raised
    /\ ~exists(LastResolution.path, LastResolution.dirs, last.prefiles)

BareCreate ==
    /\ last.op = "create_presentation"
    /\ IsBare(last.id)
    /\ get_presentations_root(cli, env) = DefaultRoot

\* C17 as stated: create_presentation with a bare identifier under the root
\* "./presentations" creates the file join(abs(root), identifier) and returns
\* a message response with that path as file_path and slide_count 1
C17_AsStated ==
    BareCreate =>
        /\ last.outcome = "message"
        /\ last.path = join(AbsRoot, last.id)
        /\ CanOpen(join(AbsRoot, last.id), dirs, files)
        /\ last.slide_count = 1

\* C17 amended: the identifier is trimmed first.  When the trimmed identifier
\* is a file name (not empty, "." or "..") and no directory is at
\* join(abs(root), identifier.strip()), the new presentation is written there
\* (over a file that was there) and the message response carries that path
\* and slide_count 1; otherwise
\* the path names a directory, the save raises and no file is written
C17_BareCreated ==
    BareCreate =>
        LET n == Strip(last.id)
            target == join(AbsRoot, n)
        IN  IF n \in {<<>>, <<".">>, DotDot} \/ isdir(target, dirs, last.prefiles)
            THEN /\ last.outcome = "exception"
                 /\ ~last.raised
                 /\ files = last.prefiles
            ELSE /\ last.outcome = "message"
                 /\ "message" \in last.keys /\ "file_path" \in last.keys
                 /\ last.path = target
                 /\ last.text = <<"Created new presentation at: ", target>>
                 /\ CanOpen(target, dirs, files)
                 /\ Opened(target, dirs, files) = DefaultDoc
                 /\ last.slide_count = 1

C17_Witness ==
    /\ BareCreate
    /\ last.id = <<"a", ".">>
    /\ last.outcome = "message"
    /\ last.path = join(AbsRoot, <<"a", ".">>)
    /\ CanOpen(last.path, dirs, files)
    /\ last.slide_count = 1

\* the handlers that take a slide index
IndexTools ==
    {"manage_hyperlinks", "update_chart_data", "add_connector", "manage_slide_transitions"}

\* the last request opened its presentation, and the document it read
OpenedDocument ==
    /\ last.op \in IndexTools
    /\ \E k \in 1..Len(last.io) : last.io[k][1] = "open"
    /\ CanOpen(last.path, dirs, last.prefiles)

LastDocument == Opened(last.path, dirs, last.prefiles)

InRange(i, n) == 0 <= i /\ i < n

SlideOutOfRange == ~InRange(last.args.slide_index, Len(LastDocument))

\* the shape index is read by manage_hyperlinks (but for "list") and by
\* update_chart_data, once the slide is found
ShapeOutOfRange ==
    /\ ~SlideOutOfRange
    /\ \/ last.op = "update_chart_data"
       \/ last.op = "manage_hyperlinks" /\ last.args.operation # "list"
    /\ last.args.shape_index # NoIndex
    /\ ~InRange(last.args.shape_index[1], Len(LastDocument[last.args.slide_index + 1]))

\* the run index is read by the update and remove operations of
\* manage_hyperlinks, once the shape is found to hold text
RunOutOfRange ==
    /\ last.op = "manage_hyperlinks"
    /\ last.args.operation \in {"update", "remove"}
    /\ ~SlideOutOfRange
    /\ last.args.shape_index # NoIndex
    /\ ~ShapeOutOfRange
    /\ LET shape == LastDocument[last.args.slide_index + 1][last.args.shape_index[1] + 1]
       IN  /\ shape.kind = "text"
           /\ last.args.operation = "update" => last.args.url # None
           /\ ~InRange(last.args.run_index, Len(shape.runs))

\* C18: a slide, shape or run index outside [0, size of the collection) gives
\* an error response, and the presentation file is neither modified nor saved
C18_OutOfRangeRejected ==
    (OpenedDocument /\ (SlideOutOfRange \/ ShapeOutOfRange \/ RunOutOfRange)) =>
        /\ last.outcome = "error"
        /\ ~SavedSomething
        /\ files = last.prefiles

OutOfRangeTexts ==
    {"Slide index out of range", "Shape index out of range", "Run index out of range"}

\* the last response is an out-of-range error
OutOfRangeError ==
    /\ last.outcome = "error"
    /\ last.text # <<>>
    /\ last.text[1] \in OutOfRangeTexts

\* the index the error is about, and the size of the collection it was
\* checked against (a shape index is an optional value, so is its bound here)
OffendingIndex ==
    CASE last.text[1] = "Slide index out of range" -> last.args.slide_index
      [] last.text[1] = "Shape index out of range" -> last.args.shape_index
      [] last.text[1] = "Run index out of range" -> last.args.run_index

CheckedBound ==
    CASE last.text[1] = "Slide index out of range" -> Len(LastDocument)
      [] last.text[1] = "Shape index out of range" ->
            <<Len(LastDocument[last.args.slide_index + 1])>>
      [] last.text[1] = "Run index out of range" ->
            Len(LastDocument[last.args.slide_index + 1][last.args.shape_index[1] + 1].runs)

\* the values the error text carries
CarriedValues == {last.text[k] : k \in 2..Len(last.text)}

\* C19 as stated: an out-of-range error carries the offending index and the
\* bound of the collection
C19_AsStated ==
    OutOfRangeError =>
        /\ OffendingIndex \in CarriedValues
        /\ CheckedBound \in CarriedValues

\* C19 amended: an out-of-range error is given only for an index that is out
\* of range (for a run index: not below the number of runs), and its text
\* carries the offending index and nothing else
C19_CarriesIndexOnly ==
    OutOfRangeError =>
        /\ OpenedDocument
        /\ last.text = <<last.text[1], OffendingIndex>>
        /\ last.text[1] = "Slide index out of range" => SlideOutOfRange
        /\ last.text[1] = "Shape index out of range" =>
              (last.args.shape_index = NoIndex \/ ShapeOutOfRange)
        /\ last.text[1] = "Run index out of range" => last.args.run_index >= CheckedBound

C19_Witness ==
    /\ OutOfRangeError
    /\ last.op = "manage_slide_transitions"
    /\ last.args.slide_index = -1
    /\ Len(LastDocument) = 1
    /\ last.text = <<"Slide index out of range", -1>>

\* the last response is an error whose text names the presentation
ErrorNamesPresentation ==
    /\ last.outcome = "error"
    /\ last.text # <<>>
    /\ last.text[1] = "File not found: "

\* C21: an error text that names the presentation names only the sanitized
\* basename of the caller's identifier, never the resolved path or a
\* directory component
C21_NoPathInError ==
    ErrorNamesPresentation =>
        /\ last.text[2] = sanitize_presentation_name(last.id)
        /\ \A j \in 1..Len(last.text[2]) : last.text[2][j] # "/"

\* the last call was a lookup of the template search directories
LookedUp == last.op = "get_template_search_directories"

\* the entries, after user-home expansion, that are existing directories
RECURSIVE ExistingDirectories(_, _, _)
ExistingDirectories(entries, D, F) ==
    IF entries = <<>> THEN <<>>
    ELSE LET e == expanduser(Head(entries))
         IN  (IF exists(e, D, F) /\ isdir(e, D, F) THEN <<e>> ELSE <<>>)
                 \o ExistingDirectories(Tail(entries), D, F)

\* the entries of the variable as split at the separator
SplitEntries(tenv) == IF tenv = None THEN <<>> ELSE Split(tenv, ":")

StrippedEntries(tenv) ==
    LET es == SplitEntries(tenv) IN [i \in 1..Len(es) |-> Strip(es[i])]

\* C22 as stated: the lookup returns the split entries that, after user-home
\* expansion, are existing directories, in order, followed by the fallback
\* list; the fallback list alone when there is none
C22_AsStated ==
    LookedUp =>
        last.result =
            ExistingDirectories(SplitEntries(last.tplenv), last.dirs, files)
                \o FallbackDirs

\* C22 amended: each split entry is first stripped of surrounding whitespace;
\* the lookup returns the stripped entries that, after user-home expansion,
\* are existing directories, in their expanded form and original order,
\* followed by the fallback list; the fallback list alone when there is none
C22_StrippedEntriesThenFallback ==
    LookedUp =>
        last.result =
            ExistingDirectories(StrippedEntries(last.tplenv), last.dirs, files)
                \o FallbackDirs

\* a lookup that returned two entries of the variable before the fallback
\* list, one of them the expansion of "~"
C22_Witness ==
    /\ LookedUp
    /\ Len(last.result) = Len(FallbackDirs) + 2
    /\ last.result[1] # last.result[2]
    /\ \E i \in 1..2 : last.result[i] = home

\* C23: every lookup computes the search path from the value of
\* PPT_TEMPLATE_PATH and the directories that exist at the time of that
\* lookup, whatever an earlier lookup returned
C23_RecomputedEveryLookup ==
    LookedUp =>
        last.result = get_template_search_directories(last.tplenv, last.dirs, files)

\* a second lookup that returned another search path than the one before it
C23_Witness ==
    /\ LookedUp
    /\ last.prev # None
    /\ last.prev # last.result

\* both requests have returned, and both opened the file before either saved
BothOpenedBeforeEitherSaved ==
    /\ last.op = "concurrent"
    /\ Len(last.order) = 4
    /\ last.order[1][1] = "open"
    /\ last.order[2][1] = "open"

\* the request whose save happened last, and the other one
LastSaver == last.order[4][2]
FirstSaver == last.order[3][2]

\* the deck after one request alone on the file F
Alone(req, F) == InMemory(Handle(req, cli, env, BaseDirs \cup {TemplatesDir}, F))

\* C24: when two mutating requests on the same resolved path both open the
\* file before either saves, both return a message, and the file is left as
\* the request that saved last would have left it alone: the change of the
\* other request is not in it, and no error tells of it
C24_LastSaveWins ==
    BothOpenedBeforeEitherSaved =>
        /\ \A i \in 1..2 : arg[i].r.outcome = "message" /\ ~arg[i].r.raised
        /\ arg[1].r.path = arg[2].r.path
        /\ files[DeckLoc] = Alone(arg[LastSaver].req, ChartFiles)
        /\ DOMAIN files = DOMAIN ChartFiles

\* two requests that opened before either saved, where the file differs from
\* what the two requests one after the other would have left: a change is lost
C24_Witness ==
    /\ BothOpenedBeforeEitherSaved
    /\ files[DeckLoc] # ChartDoc
    /\ files[DeckLoc] #
           Alone(arg[LastSaver].req,
                 Write(ChartFiles, DeckLoc, Alone(arg[FirstSaver].req, ChartFiles)))

\* the same request was served twice in succession: the first had returned
\* before the second arrived
TwiceInSuccession ==
    /\ last.op = "concurrent"
    /\ Len(last.order) = 4
    /\ last.order[2][1] = "save"
    /\ arg[1].req = arg[2].req

\* the requests that append to the document
AddsHyperlink(req) == req.op = "manage_hyperlinks" /\ req.args.operation = "add"
AddsConnector(req) == req.op = "add_connector"

\* C25 as stated: the same request twice in succession leaves the document on
\* disk as the request once leaves it
C25_AsStated ==
    TwiceInSuccession => files[DeckLoc] = Alone(arg[1].req, ChartFiles)

\* C25 amended: the same successful request twice in succession leaves the
\* document on disk as the request once leaves it, except that
\* manage_hyperlinks "add" has appended two runs to the shape and
\* add_connector two connectors to the slide, one per call
C25_IdempotentUnlessAdd ==
    TwiceInSuccession =>
        LET req == arg[1].req
            doc == files[DeckLoc]
            once == Alone(req, ChartFiles)
        IN  /\ arg[1].r.outcome = "message" /\ arg[2].r.outcome = "message"
            /\ IF AddsHyperlink(req)
               THEN /\ Len(once[1][1].runs) = Len(ChartDoc[1][1].runs) + 1
                    /\ doc[1][1].runs = Append(once[1][1].runs, Run(req.args.text, req.args.url))
                    /\ doc[1][2] = once[1][2]
               ELSE IF AddsConnector(req)
               THEN /\ Len(once[1]) = Len(ChartDoc[1]) + 1
                    /\ doc[1] = Append(once[1], once[1][Len(once[1])])
               ELSE doc = once
            /\ req.op = "update_chart_data" => once # ChartDoc

\* a request served twice in succession whose second serving changed the file
\* again
C25_Witness ==
    /\ TwiceInSuccession
    /\ arg[1].r.outcome = "message"
    /\ arg[2].r.outcome = "message"
    /\ files[DeckLoc] # arg[1].r.files[DeckLoc]

\* the last request answered with a message after it saved a document
SavedWithMessage == last.op # "none" /\ last.outcome = "message" /\ SavedSomething

\* the handlers that change a document that exists
EditingTools ==
    {"manage_hyperlinks", "update_chart_data", "add_connector",
     "manage_slide_transitions", "set_core_properties"}

\* resolve the identifier, open the resolved path, save to the resolved path
ResolveOpenSave == <<EvResolve(last.id), EvOpen(last.path), EvSave(last.path)>>

\* C26 as stated: every successful mutating request resolves the path, opens
\* the document from that path and saves to the same path, in that order and
\* with exactly one save
C26_AsStated == SavedWithMessage => last.io = ResolveOpenSave

\* C26 amended: every successful mutating request resolves its identifier
\* once and saves exactly once, after the resolution.  The handlers that
\* change an existing document open the resolved path between the two and
\* save to it; create_presentation opens nothing; save_presentation saves to
\* file_path when one is given; create_presentation_from_template opens the
\* template before it resolves the identifier
C26_OneSaveAfterResolve ==
    SavedWithMessage =>
        /\ \E k \in 1..Len(last.io) : last.io[k] = EvResolve(last.id)
        /\ last.io[Len(last.io)][1] = "save"
        /\ \A k \in 1..(Len(last.io) - 1) : last.io[k][1] # "save"
        /\ last.op \in EditingTools => last.io = ResolveOpenSave
        /\ last.op = "create_presentation" =>
               last.io = <<EvResolve(last.id), EvSave(last.path)>>
        /\ last.op = "save_presentation" =>
               last.io = <<EvResolve(last.id), EvOpen(last.path),
                           EvSave(IF Truthy(last.args.file_path)
                                  THEN abspath(last.args.file_path)
                                  ELSE last.path)>>
        /\ last.op = "create_presentation_from_template" =>
               /\ Len(last.io) = 3
               /\ last.io[1][1] = "open"
               /\ last.io[2] = EvResolve(last.id)
               /\ last.io[3] = EvSave(last.path)

\* a handler that changed an existing document, saved it and answered with a
\* message
C26_Witness ==
    /\ SavedWithMessage
    /\ last.op \in EditingTools
    /\ files # last.prefiles

\* add_connector was called on a file that opens, with a slide index in range,
\* a connector type of the map and a colour that is a valid [r, g, b] list
ColouredConnectorRequest ==
    /\ last.op = "add_connector"
    /\ ~last.raised
    /\ last.path # None
    /\ CanOpen(last.path, last.pre, last.prefiles)
    /\ InRange(last.args.slide_index, Len(Opened(last.path, last.pre, last.prefiles)))
    /\ Lower(last.args.connector_type) \in ConnectorMap
    /\ is_valid_rgb(last.args.color)

\* C27: add_connector with valid arguments and a valid [r, g, b] colour adds
\* the connector with that line colour to the slide, saves the file and
\* returns a message
C27_ColouredConnectorAdded ==
    ColouredConnectorRequest =>
        LET before == Opened(last.path, last.pre, last.prefiles)
            slide == before[last.args.slide_index + 1]
        IN  /\ last.outcome = "message"
            /\ "shape_index" \in last.keys
            /\ SavedSomething
            /\ Opened(last.path, dirs, files) =
                   [before EXCEPT ![last.args.slide_index + 1] =
                       Append(slide, ConnectorShape(Lower(last.args.connector_type),
                                                    last.args.color))]

\* the last request named a template that did not exist as given
TemplateSearched ==
    /\ last.op \in {"create_presentation_from_template", "get_template_file_info"}
    /\ ~exists(last.args.template_path, last.pre, last.prefiles)

\* the search directories at the request, and the candidate in the i-th
SearchedDirs == get_template_search_directories(tplenv, last.pre, last.prefiles)
Candidate(i) == join(SearchedDirs[i], basename(last.args.template_path))
HasTemplate(i) == exists(Candidate(i), last.pre, last.prefiles)

NothingCreated == dirs = last.pre /\ files = last.prefiles

Resolves == \E k \in 1..Len(last.io) : last.io[k][1] = "resolve"

\* C28: when template_path does not exist, both handlers take the basename
\* from the first search directory, in order, in which it exists, and load
\* that file; when no directory has it, or the template does not load,
\* create_presentation_from_template answers with an error, has not resolved
\* the output identifier and has created no directory and no file
C28_FirstHitOrNoEffect ==
    /\ TemplateSearched =>
          IF \E i \in 1..Len(SearchedDirs) : HasTemplate(i)
          THEN \E i \in 1..Len(SearchedDirs) :
                  /\ HasTemplate(i)
                  /\ \A k \in 1..(i - 1) : ~HasTemplate(k)
                  /\ last.io # <<>>
                  /\ last.io[1] = EvOpen(Candidate(i))
          ELSE /\ last.outcome = "error"
               /\ last.text[1] = "Template file not found: "
               /\ last.io = <<>>
               /\ NothingCreated
    /\ (last.op = "create_presentation_from_template" /\ last.outcome = "error") =>
          /\ ~Resolves
          /\ ~last.raised
          /\ NothingCreated

\* a template found in a search directory that is not the only one to hold
\* its name, and loaded from there
C28_Witness ==
    /\ TemplateSearched
    /\ \E i, k \in 1..Len(SearchedDirs) :
          /\ i < k
          /\ HasTemplate(i)
          /\ HasTemplate(k)
          /\ last.io # <<>>
          /\ last.io[1] = EvOpen(Candidate(i))
    /\ last.outcome \in {"message", "info"}

\* the last request was one of the operations that only read
ReadOnlyRequest ==
    \/ last.op \in {"open_presentation", "get_presentation_info"}
    \/ last.op = "manage_hyperlinks" /\ last.args.operation = "list"
    \/ last.op = "manage_slide_transitions" /\ last.args.operation = "get"

\* C29: after open_presentation, get_presentation_info, manage_hyperlinks
\* "list" or manage_slide_transitions "get", whatever the outcome, nothing was
\* saved: every file, the one at the resolved path included, has the content
\* it had before the request, and no file was added
C29_ReadOnlyWritesNothing ==
    ReadOnlyRequest => (files = last.prefiles /\ ~SavedSomething)

\* a read-only request that opened the file at the resolved path and
\* answered from it
C29_Witness ==
    /\ ReadOnlyRequest
    /\ last.outcome \in {"message", "info"}
    /\ last.path # None
    /\ CanOpen(last.path, dirs, files)
    /\ \E k \in 1..Len(last.io) : last.io[k] = EvOpen(last.path)

----------------------------------------------------------------------------
(* Claims about the value checks and the sanitizer *)

\* C11 as stated: is_valid_rgb accepts exactly the 3-element sequences whose
\* elements are all integers in [0, 255]
C11_AsStated ==
    last.op = "is_valid_rgb" =>
        (last.result <=>
            /\ arg.type \in {"list", "tuple"}
            /\ Len(arg.items) = 3
            /\ \A i \in 1..Len(arg.items) :
                  arg.items[i].type = "int" /\ arg.items[i].value \in 0..255)

\* C11 amended: is_valid_rgb accepts exactly the values that are lists (a
\* tuple is rejected) of 3 elements that are each an instance of int, which
\* includes True and False, with a value in [0, 255]
C11_RgbAccepts ==
    last.op = "is_valid_rgb" =>
        (last.result <=>
            /\ arg.type = "list"
            /\ Len(arg.items) = 3
            /\ \A i \in 1..3 :
                  arg.items[i].type \in {"int", "bool"} /\ arg.items[i].value \in 0..255)

C11_Witness ==
    /\ last.op = "is_valid_rgb" /\ last.result
    /\ arg.items = <<PyItem("int", 255), PyItem("int", 0), PyItem("bool", 1)>>

\* C12: is_in_range(min, max)(x) is true exactly when x lies in the closed
\* interval from min to max; is_in_range(1, 10) accepts 1 and 10 and rejects
\* 0 and 11
C12_RangeInclusive ==
    last.op = "is_in_range" =>
        /\ last.result <=> arg[3] \in arg[1]..arg[2]
        /\ (arg[1] = 1 /\ arg[2] = 10 /\ arg[3] \in {1, 10}) => last.result
        /\ (arg[1] = 1 /\ arg[2] = 10 /\ arg[3] \in {0, 11}) => ~last.result

C12_Witness ==
    /\ last.op = "is_in_range" /\ last.result
    /\ arg = <<1, 10, 10>>

\* the final path component of s after its trailing separators, "/" or "\",
\* are removed
FinalComponent(s) == basename(RStripChars(s, {"\\", "/"}))

Sanitized == last.op = "sanitize_presentation_name"

SeparatorFree(s) == s = None \/ \A j \in 1..Len(s) : s[j] # "/"

\* C30 as stated: sanitize(sanitize(x)) = sanitize(x), and the result does not
\* contain '/'
C30_AsStated ==
    Sanitized =>
        /\ sanitize_presentation_name(last.result) = last.result
        /\ SeparatorFree(last.result)

\* C30 amended: the result does not contain '/'; a second application removes
\* the whitespace around the result and then its trailing backslashes, and
\* nothing else, so it returns the result unchanged whenever the result has no
\* whitespace at either end
C30_SeparatorFreeTrimmedAgain ==
    Sanitized =>
        /\ SeparatorFree(last.result)
        /\ sanitize_presentation_name(last.result) =
               (IF last.result = None THEN None
                ELSE RStripChars(Strip(last.result), {"\\"}))
        /\ (last.result = None \/ Strip(last.result) = last.result) =>
               sanitize_presentation_name(last.result) = last.result

\* an identifier with a directory part whose sanitized name is not empty and
\* is returned unchanged by a second application
C30_Witness ==
    /\ Sanitized
    /\ ~SeparatorFree(arg)
    /\ last.result # <<>>
    /\ last.result # arg
    /\ sanitize_presentation_name(last.result) = last.result

----------------------------------------------------------------------------
(* Claims about the parameter validator *)

Validated == last.op = "validate"

\* the constraints of the mapping in mapping order, as <<i, j>> pairs
RECURSIVE PairsFrom(_, _, _)
PairsFrom(params, i, j) ==
    IF i > Len(params) THEN <<>>
    ELSE IF j > Len(params[i].constraints) THEN PairsFrom(params, i + 1, 1)
    ELSE <<<<i, j>>>> \o PairsFrom(params, i, j + 1)

AllPairs(params) == PairsFrom(params, 1, 1)

Fails(params, pr) ==
    ~Holds(params[pr[1]].constraints[pr[2]].func, params[pr[1]].value)

\* the position in AllPairs of the first failing constraint, 0 when none fails
FirstFailure(params) ==
    LET ps == AllPairs(params)
        I == {k \in 1..Len(ps) : Fails(params, ps[k])}
    IN  IF I = {} THEN 0 ELSE CHOOSE k \in I : \A h \in I : k <= h

\* C10: (True, None) exactly when every constraint of every parameter holds;
\* otherwise (False, message) with the name of the first parameter in mapping
\* order that has a failing constraint and the message of its first failing
\* constraint, and no constraint after that failure is evaluated
C10_FirstFailure ==
    Validated =>
        LET ps == AllPairs(arg)
            k == FirstFailure(arg)
        IN  /\ last.ok <=> (k = 0)
            /\ k = 0 => last.msg = None /\ last.evaluated = ps
            /\ k # 0 =>
                 /\ last.msg = <<"Parameter", arg[ps[k][1]].name,
                                 arg[ps[k][1]].constraints[ps[k][2]].msg>>
                 /\ last.evaluated = SubSeq(ps, 1, k)

C10_Witness ==
    /\ Validated /\ ~last.ok
    /\ Len(arg) = 2
    /\ Len(last.evaluated) >= 2
    /\ Len(last.evaluated) < Len(AllPairs(arg))
    /\ last.msg[2] = arg[2].name
    /\ \E k \in 1..Len(AllPairs(arg)) :
          k > Len(last.evaluated) /\ Fails(arg, AllPairs(arg)[k])

====
